---------------------------- MODULE Spec2Model ----------------------------
(***************************************************************************)
(* Verification model of the encrypted survey tool (i-infra/e2ee-survey).  *)
(*                                                                         *)
(* Three layers of src/src/shared/crypto.js are modelled:                  *)
(*   - the codec (lines 1-202): randomBytes, deriveKey, encryptData,       *)
(*     decryptData, createKeyHash, generateUlid, validatePassword,         *)
(*     createEncryptedSurvey, decryptSurvey;                               *)
(*   - the D1 database operations (lines 203-576);                         *)
(*   - the Cloudflare worker and its routes (lines 577-1066).              *)
(*                                                                         *)
(* Conventions.  A JavaScript string and a Uint8Array are both sequences   *)
(* of naturals (character codes, bytes).  A function that may throw        *)
(* returns Ok(v) or Throw(message).  The libraries the code calls but does *)
(* not contain (Argon2i, NaCl secretbox, SHA-256, the CSPRNG) are small    *)
(* computable stand-ins with the properties the libraries promise: the     *)
(* key derivation and the digest are injective on the inputs of the model, *)
(* the box authenticates nonce and ciphertext, and the CSPRNG never        *)
(* repeats a block.                                                        *)
(***************************************************************************)
EXTENDS Integers, Sequences, FiniteSets, TLC

\* ------------------------------------------------------------------------
\* Bounds of the model
\* ------------------------------------------------------------------------

\* createEncryptedSurvey calls per behaviour
MaxSeals ==
    1

\* direct encryptData calls (sealing answers) per behaviour
MaxBoxes ==
    2

\* last value of the clock (Date.now() starts at 1)
MaxTime ==
    2

\* ------------------------------------------------------------------------
\* Results of functions that may throw
\* ------------------------------------------------------------------------

Ok(v) ==
    [ok |-> TRUE, value |-> v]

Throw(message) ==
    [ok |-> FALSE, error |-> message]

\* ------------------------------------------------------------------------
\* Bytes and sequences
\* ------------------------------------------------------------------------

RECURSIVE BitXor(_, _, _)
\* a ^ b on the low `bits` bits
BitXor(a, b, bits) ==
    IF bits = 0
    THEN 0
    ELSE ((a + b) % 2) + 2 * BitXor(a \div 2, b \div 2, bits - 1)

RECURSIVE Pow2(_)
Pow2(n) ==
    IF n = 0 THEN 1 ELSE 2 * Pow2(n - 1)

\* the same sequence, built as a tuple
Tuple(f) ==
    f \o <<>>

\* a ^ b for every pair of 4-bit values, at index 16 * a + b + 1
XorNibbles ==
    Tuple([k \in 1..256 |-> BitXor((k - 1) \div 16, (k - 1) % 16, 4)])

\* a ^ b on bytes, a nibble at a time
XorByte(a, b) ==
    16 * XorNibbles[16 * (a \div 16) + (b \div 16) + 1]
        + XorNibbles[16 * (a % 16) + (b % 16) + 1]

\* Uint8Array.prototype.slice(from) / slice(0, to), 0-based as in the code
SliceFrom(bytes, from) ==
    IF from >= Len(bytes) THEN <<>> ELSE SubSeq(bytes, from + 1, Len(bytes))

SliceTo(bytes, to) ==
    IF to >= Len(bytes) THEN bytes ELSE SubSeq(bytes, 1, to)

\* new Uint8Array(array) and Array.from(uint8array): element-wise, mod 256
ToUint8Array(array) ==
    Tuple([i \in 1..Len(array) |-> array[i] % 256])

ArrayFrom(bytes) ==
    Tuple([i \in 1..Len(bytes) |-> bytes[i]])

\* cyclic read used by the library stand-ins
At(s, i) ==
    IF Len(s) = 0 THEN 0 ELSE s[((i - 1) % Len(s)) + 1]

RECURSIVE RangeSum(_, _, _, _, _)
\* sum over i in from..to of (a * i + b) * s[i], by halves
RangeSum(s, from, to, a, b) ==
    IF from > to
    THEN 0
    ELSE IF from = to
         THEN (a * from + b) * s[from]
         ELSE LET middle == (from + to) \div 2
              IN  RangeSum(s, from, middle, a, b) + RangeSum(s, middle + 1, to, a, b)

\* sum over i in 1..n of (a * i + b) * s[i]
WeightedSum(s, n, a, b) ==
    RangeSum(s, 1, n, a, b)

\* ------------------------------------------------------------------------
\* randomBytes: a CSPRNG.  `counter` is the number of blocks drawn so far;
\* two draws with different counters never give the same block.
\* ------------------------------------------------------------------------

randomBytes(length, counter) ==
    Tuple([i \in 1..length |-> (53 * counter + 29 * i + 17) % 256])

\* ------------------------------------------------------------------------
\* deriveKey: Argon2i(password, salt), hashLen 32
\* ------------------------------------------------------------------------

KeyLength ==
    32

SaltLength ==
    16

NonceLength ==
    24

\* nacl.secretbox.overheadLength: the Poly1305 authenticator
TagLength ==
    16

\* new TextEncoder().encode(string): the strings of the model are ASCII
TextEncode(string) ==
    Tuple([i \in 1..Len(string) |-> string[i] % 256])

TextDecode(bytes) ==
    Tuple([i \in 1..Len(bytes) |-> bytes[i]])

\* every byte of the password and of the salt enters every byte of the hash
Argon2i(pass, salt, hashLen) ==
    LET passSum == WeightedSum(pass, Len(pass), 2, 1)
        saltSum == WeightedSum(salt, Len(salt), 2, 1)
    IN  Tuple([i \in 1..hashLen |->
            (At(pass, i) + 3 * At(salt, i) + 5 * Len(pass) + 7 * i
                + passSum + 11 * saltSum) % 256])

deriveKey(password, salt) ==
    LET passwordBytes == TextEncode(password)
    IN  Argon2i(passwordBytes, salt, KeyLength)

\* ------------------------------------------------------------------------
\* nacl.secretbox / nacl.secretbox.open: XSalsa20 stream, Poly1305 tag
\* ------------------------------------------------------------------------

Stream(key, nonce, i) ==
    (At(key, i) + 3 * At(nonce, i) + 11 * i) % 256

StreamXor(bytes, nonce, key) ==
    Tuple([i \in 1..Len(bytes) |-> XorByte(bytes[i], Stream(key, nonce, i))])

Authenticator(cipher, nonce, key) ==
    LET nonceSum  == WeightedSum(nonce, Len(nonce), 2, 1)
        cipherSum == WeightedSum(cipher, Len(cipher), 0, 1)
        cipherPos == WeightedSum(cipher, Len(cipher), 1, 0)
    IN  Tuple([j \in 1..TagLength |->
            (At(key, j) + 5 * At(key, j + TagLength)
               + nonceSum + cipherPos + j * cipherSum + Len(cipher)) % 256])

\* the box without its authenticator
secretbox_noTag(message, nonce, key) ==
    StreamXor(message, nonce, key)

secretbox(message, nonce, key) ==
    LET cipher == StreamXor(message, nonce, key)
    IN  Authenticator(cipher, nonce, key) \o cipher

\* null (here Throw) when the box is too short or the tag does not verify
secretboxOpen(box, nonce, key) ==
    IF Len(box) < TagLength
    THEN Throw("null")
    ELSE LET tag    == SliceTo(box, TagLength)
             cipher == SliceFrom(box, TagLength)
         IN  IF Authenticator(cipher, nonce, key) # tag
             THEN Throw("null")
             ELSE Ok(StreamXor(cipher, nonce, key))

\* ------------------------------------------------------------------------
\* createKeyHash: SHA-256 of the key, as lower-case hex
\* ------------------------------------------------------------------------

HexDigits ==
    <<48, 49, 50, 51, 52, 53, 54, 55, 56, 57, 97, 98, 99, 100, 101, 102>>

Sha256(bytes) ==
    LET sum == WeightedSum(bytes, Len(bytes), 0, 1)
    IN  Tuple([i \in 1..32 |->
            (7 * At(bytes, i) + sum + 3 * Len(bytes) + i) % 256])

\* b.toString(16).padStart(2, '0')
HexByte(b) ==
    <<HexDigits[(b \div 16) + 1], HexDigits[(b % 16) + 1]>>

RECURSIVE JoinHex(_)
JoinHex(bytes) ==
    IF bytes = <<>> THEN <<>> ELSE HexByte(Head(bytes)) \o JoinHex(Tail(bytes))

\* a digest of the length of the key only
createKeyHash_lengthOnly(key) ==
    JoinHex(Sha256(Tuple([i \in 1..Len(key) |-> 0])))

createKeyHash(key) ==
    JoinHex(Sha256(key))

\* ------------------------------------------------------------------------
\* JSON.stringify / JSON.parse on the structured values of the model.
\* A value is [kind, val]; an object is its list of <<key, value>> pairs in
\* insertion order, as JSON.stringify emits them.
\* ------------------------------------------------------------------------

JNull ==
    [kind |-> "null", val |-> 0]

JBool(b) ==
    [kind |-> "boolean", val |-> b]

JNum(n) ==
    [kind |-> "number", val |-> n]

JStr(s) ==
    [kind |-> "string", val |-> s]

JArr(items) ==
    [kind |-> "array", val |-> items]

JObj(pairs) ==
    [kind |-> "object", val |-> pairs]

RECURSIVE Digits(_)
\* decimal digits of a natural
Digits(n) ==
    IF n < 10 THEN <<48 + n>> ELSE Digits(n \div 10) \o <<48 + (n % 10)>>

RECURSIVE Quote(_)
\* the characters of a string, with " and \ escaped
Quote(s) ==
    IF s = <<>>
    THEN <<>>
    ELSE (IF Head(s) \in {34, 92} THEN <<92, Head(s)>> ELSE <<Head(s)>>)
            \o Quote(Tail(s))

RECURSIVE JSONstringify(_)
RECURSIVE StringifyItems(_)
RECURSIVE StringifyPairs(_)
StringifyItems(items) ==
    IF items = <<>>
    THEN <<>>
    ELSE JSONstringify(Head(items))
            \o (IF Len(items) > 1 THEN <<44>> ELSE <<>>)
            \o StringifyItems(Tail(items))

StringifyPairs(pairs) ==
    IF pairs = <<>>
    THEN <<>>
    ELSE <<34>> \o Quote(Head(pairs)[1]) \o <<34, 58>>
            \o JSONstringify(Head(pairs)[2])
            \o (IF Len(pairs) > 1 THEN <<44>> ELSE <<>>)
            \o StringifyPairs(Tail(pairs))

JSONstringify(v) ==
    CASE v.kind = "null"    -> <<110, 117, 108, 108>>
      [] v.kind = "boolean" -> IF v.val THEN <<116, 114, 117, 101>>
                                        ELSE <<102, 97, 108, 115, 101>>
      [] v.kind = "number"  -> Digits(v.val)
      [] v.kind = "string"  -> <<34>> \o Quote(v.val) \o <<34>>
      [] v.kind = "array"   -> <<91>> \o StringifyItems(v.val) \o <<93>>
      [] v.kind = "object"  -> <<123>> \o StringifyPairs(v.val) \o <<125>>

\* {title:"T", questions:[{id:"q1", type:"text", text:"Q?"}]}
SurveyT ==
    JObj(<< <<(<<116, 105, 116, 108, 101>>), JStr(<<84>>)>>,
            <<(<<113, 117, 101, 115, 116, 105, 111, 110, 115>>),
              JArr(<<JObj(<< <<(<<105, 100>>), JStr(<<113, 49>>)>>,
                             <<(<<116, 121, 112, 101>>), JStr(<<116, 101, 120, 116>>)>>,
                             <<(<<116, 101, 120, 116>>), JStr(<<81, 63>>)>> >>)>>)>> >>)

\* {title:"A", questions:[]}
SurveyA ==
    JObj(<< <<(<<116, 105, 116, 108, 101>>), JStr(<<65>>)>>,
            <<(<<113, 117, 101, 115, 116, 105, 111, 110, 115>>), JArr(<<>>)>> >>)

\* answers of a respondent: {q1:true} and {q1:"x"}
AnswersYes ==
    JObj(<< <<(<<113, 49>>), JBool(TRUE)>> >>)

AnswersText ==
    JObj(<< <<(<<113, 49>>), JStr(<<120>>)>> >>)

\* the surveys a creator seals
Surveys ==
    {SurveyT, SurveyA}

\* what a respondent seals
Answers ==
    {AnswersYes, AnswersText}

\* values that are JSON but no survey
NotSurveys ==
    {JNum(7), JNull, JStr(<<104, 105>>)}

JsonValues ==
    Surveys \cup Answers \cup NotSurveys

\* JSON.parse: the value whose text this is; a SyntaxError otherwise
JSONparse(text) ==
    IF \E v \in JsonValues : JSONstringify(v) = text
    THEN Ok(CHOOSE v \in JsonValues : JSONstringify(v) = text)
    ELSE Throw("SyntaxError")

\* ------------------------------------------------------------------------
\* generateUlid
\* ------------------------------------------------------------------------

\* '0123456789ABCDEFGHJKMNPQRSTVWXYZ'
UlidChars ==
    <<48, 49, 50, 51, 52, 53, 54, 55, 56, 57, 65, 66, 67, 68, 69, 70,
      71, 72, 74, 75, 77, 78, 80, 81, 82, 83, 84, 86, 87, 88, 89, 90>>

\* Date.now() is a number of more than 31 bits: a timestamp is held as two
\* limbs of 25 bits, its value being hi * 32^5 + lo
Limb ==
    33554432

Wide(n) ==
    [hi |-> n \div Limb, lo |-> n % Limb]

\* temp % 32 and Math.floor(temp / 32) on the two limbs
Mod32(temp) ==
    temp.lo % 32

Floor32(temp) ==
    [hi |-> temp.hi \div 32,
     lo |-> (temp.hi % 32) * (Limb \div 32) + (temp.lo \div 32)]

RECURSIVE EncodeTimestamp_append(_, _, _)
\* the digits of the timestamp appended, lowest first, instead of prepended
EncodeTimestamp_append(temp, i, result) ==
    IF i = 10
    THEN result
    ELSE EncodeTimestamp_append(Floor32(temp), i + 1,
                                result \o <<UlidChars[Mod32(temp) + 1]>>)

RECURSIVE EncodeTimestamp(_, _, _)
\* for (i = 0; i < 10; i++) { result = chars[temp % 32] + result; temp = floor(temp / 32) }
EncodeTimestamp(temp, i, result) ==
    IF i = 10
    THEN result
    ELSE EncodeTimestamp(Floor32(temp), i + 1, <<UlidChars[Mod32(temp) + 1]>> \o result)

RECURSIVE EncodeRandomness(_, _, _)
\* for (i = 0; i < randomness.length; i++) { ... }, i 0-based as in the code
EncodeRandomness(randomness, i, result) ==
    IF i = Len(randomness)
    THEN result
    ELSE LET byte == randomness[i + 1]
             low  == <<UlidChars[(byte % 32) + 1]>>
             high == IF i < Len(randomness) - 1
                     THEN <<UlidChars[(byte \div 32) + 1]>>
                     ELSE <<>>
         IN  EncodeRandomness(randomness, i + 1, result \o low \o high)

\* the result is not cut to 26 characters
UlidEncode_noSlice(timestamp, randomness) ==
    EncodeRandomness(randomness, 0, EncodeTimestamp(timestamp, 0, <<>>))

UlidEncode(timestamp, randomness) ==
    SliceTo(EncodeRandomness(randomness, 0, EncodeTimestamp(timestamp, 0, <<>>)), 26)

\* bytes of randomness in an identifier
UlidRandomLength ==
    10

generateUlid(timestamp, counter) ==
    UlidEncode(Wide(timestamp), randomBytes(UlidRandomLength, counter))

\* ------------------------------------------------------------------------
\* validatePassword
\* ------------------------------------------------------------------------

MinPasswordLength ==
    8

MaxPasswordLength ==
    128

validatePassword(password) ==
    IF password = <<>> \/ Len(password) < MinPasswordLength
    THEN [valid |-> FALSE, message |-> "Password must be at least 8 characters long"]
    ELSE IF Len(password) > MaxPasswordLength
         THEN [valid |-> FALSE, message |-> "Password must be less than 128 characters"]
         ELSE [valid |-> TRUE, message |-> ""]

\* ------------------------------------------------------------------------
\* encryptData / decryptData
\* ------------------------------------------------------------------------

\* nonce drawn from the key instead of randomBytes
encryptData_keyNonce(data, key, counter) ==
    LET message == TextEncode(JSONstringify(data))
        nonce   == SliceTo(key, NonceLength)
    IN  nonce \o secretbox(message, nonce, key)

encryptData(data, key, counter) ==
    LET message    == TextEncode(JSONstringify(data))
        nonce      == randomBytes(NonceLength, counter)
        ciphertext == secretbox(message, nonce, key)
    IN  nonce \o ciphertext

\* the null result of secretbox.open is not checked
decryptData_unchecked(encryptedData, key) ==
    LET nonce      == SliceTo(encryptedData, NonceLength)
        ciphertext == SliceFrom(encryptedData, NonceLength)
        decrypted  == secretboxOpen(ciphertext, nonce, key)
    IN  IF decrypted.ok
        THEN JSONparse(TextDecode(decrypted.value))
        ELSE JSONparse(TextDecode(StreamXor(SliceFrom(ciphertext, TagLength), nonce, key)))

\* the nonce is left in the ciphertext handed to the cipher
decryptData_noSplit(encryptedData, key) ==
    LET nonce     == SliceTo(encryptedData, NonceLength)
        decrypted == secretboxOpen(encryptedData, nonce, key)
    IN  IF ~decrypted.ok
        THEN Throw("Decryption failed - incorrect password or corrupted data")
        ELSE JSONparse(TextDecode(decrypted.value))

\* <= in place of <: an input of exactly one nonce is refused as malformed
decryptData_atMost(encryptedData, key) ==
    IF Len(encryptedData) <= NonceLength
    THEN Throw("Invalid encrypted data format")
    ELSE LET nonce      == SliceTo(encryptedData, NonceLength)
             ciphertext == SliceFrom(encryptedData, NonceLength)
             decrypted  == secretboxOpen(ciphertext, nonce, key)
         IN  IF ~decrypted.ok
             THEN Throw("Decryption failed - incorrect password or corrupted data")
             ELSE JSONparse(TextDecode(decrypted.value))

decryptData(encryptedData, key) ==
    IF Len(encryptedData) < NonceLength
    THEN Throw("Invalid encrypted data format")
    ELSE LET nonce      == SliceTo(encryptedData, NonceLength)
             ciphertext == SliceFrom(encryptedData, NonceLength)
             decrypted  == secretboxOpen(ciphertext, nonce, key)
         IN  IF ~decrypted.ok
             THEN Throw("Decryption failed - incorrect password or corrupted data")
             ELSE JSONparse(TextDecode(decrypted.value))

\* ------------------------------------------------------------------------
\* createEncryptedSurvey / decryptSurvey
\* ------------------------------------------------------------------------

\* randomBytes calls of one createEncryptedSurvey: salt, nonce, identifier
SealDraws ==
    3

createEncryptedSurvey(surveyData, password, counter, timestamp) ==
    LET validation == validatePassword(password)
    IN  IF ~validation.valid
        THEN Throw(validation.message)
        ELSE LET salt          == randomBytes(SaltLength, counter)
                 key           == deriveKey(password, salt)
                 encryptedData == encryptData(surveyData, key, counter + 1)
                 keyHash       == createKeyHash(key)
             IN  Ok([id            |-> generateUlid(timestamp, counter + 2),
                     salt          |-> ArrayFrom(salt),
                     encryptedData |-> ArrayFrom(encryptedData),
                     keyHash       |-> keyHash,
                     createdAt     |-> timestamp])

\* the salt is drawn before the password is validated
createEncryptedSurveyDraws_saltFirst(password) ==
    IF ~validatePassword(password).valid THEN 1 ELSE SealDraws

\* the randomBytes calls a createEncryptedSurvey call has made when it
\* returns or throws: none when the password is rejected
createEncryptedSurveyDraws(password) ==
    IF ~validatePassword(password).valid THEN 0 ELSE SealDraws

\* the key hash is not compared
decryptSurvey_noVerify(encryptedSurvey, password) ==
    LET key        == deriveKey(password, ToUint8Array(encryptedSurvey.salt))
        surveyData == decryptData(ToUint8Array(encryptedSurvey.encryptedData), key)
    IN  IF ~surveyData.ok
        THEN surveyData
        ELSE Ok([surveyData |-> surveyData.value, key |-> key])

\* the data is decrypted before the key hash is compared
decryptSurvey_decryptFirst(encryptedSurvey, password) ==
    LET key          == deriveKey(password, ToUint8Array(encryptedSurvey.salt))
        computedHash == createKeyHash(key)
        surveyData   == decryptData(ToUint8Array(encryptedSurvey.encryptedData), key)
    IN  IF ~surveyData.ok
        THEN surveyData
        ELSE IF computedHash # encryptedSurvey.keyHash
        THEN Throw("Invalid password")
        ELSE Ok([surveyData |-> surveyData.value, key |-> key])

decryptSurvey(encryptedSurvey, password) ==
    LET salt          == encryptedSurvey.salt
        encryptedData == encryptedSurvey.encryptedData
        keyHash       == encryptedSurvey.keyHash
        key           == deriveKey(password, ToUint8Array(salt))
        computedHash  == createKeyHash(key)
    IN  IF computedHash # keyHash
        THEN Throw("Invalid password")
        ELSE LET surveyData == decryptData(ToUint8Array(encryptedData), key)
             IN  IF ~surveyData.ok
                 THEN surveyData
                 ELSE Ok([surveyData |-> surveyData.value, key |-> key])

\* the functions a decryptSurvey call has invoked, in order, when it
\* returns or throws
decryptSurveyCalls(encryptedSurvey, password) ==
    LET key          == deriveKey(password, ToUint8Array(encryptedSurvey.salt))
        computedHash == createKeyHash(key)
    IN  IF computedHash # encryptedSurvey.keyHash
        THEN <<"deriveKey", "createKeyHash">>
        ELSE <<"deriveKey", "createKeyHash", "decryptData">>

\* ------------------------------------------------------------------------
\* Inputs of the codec
\* ------------------------------------------------------------------------

Repeat(c, n) ==
    Tuple([i \in 1..n |-> c])

\* "correct-horse-battery"
PasswordGood ==
    <<99, 111, 114, 114, 101, 99, 116, 45, 104, 111, 114, 115, 101, 45,
      98, 97, 116, 116, 101, 114, 121>>

\* "wrong-password"
PasswordOther ==
    <<119, 114, 111, 110, 103, 45, 112, 97, 115, 115, 119, 111, 114, 100>>

PasswordEmpty ==
    <<>>

PasswordShort ==
    Repeat(97, MinPasswordLength - 1)

PasswordAtMax ==
    Repeat(97, MaxPasswordLength)

PasswordOverMax ==
    Repeat(97, MaxPasswordLength + 1)

Passwords ==
    {PasswordGood, PasswordOther, PasswordEmpty, PasswordShort,
     PasswordAtMax, PasswordOverMax}

\* one bit of one byte inverted
FlipBit(bytes, index, bit) ==
    [bytes EXCEPT ![index] = XorByte(@, Pow2(bit))]

\* ------------------------------------------------------------------------
\* D1 database: the tables surveys and responses are sets of rows.
\* null, undefined and '' are all <<>>: the code only ever tests them with
\* !x, x || null and x && ..., which do not tell them apart.  A nullable
\* number is <<>> or <<n>>.
\* ------------------------------------------------------------------------

Null ==
    <<>>

\* JavaScript truthiness of a string, an array or a nullable number
Truthy(x) ==
    /\ x # Null
    /\ x # <<0>>

\* a statement's outcome: the value returned or the error thrown, and the tables after it
Outcome(result, surveys, responses) ==
    [result |-> result, surveys |-> surveys, responses |-> responses]

\* INSERT OR REPLACE: a row with the same id is overwritten
createSurvey_replace(surveys, responses, surveyData) ==
    Outcome(Ok([id |-> surveyData.id, analysisId |-> surveyData.analysisId,
                success |-> TRUE]),
            {row \in surveys : row.id # surveyData.id}
                \cup {[id               |-> surveyData.id,
                       analysis_id      |-> surveyData.analysisId,
                       title            |-> surveyData.title,
                       description      |-> surveyData.description,
                       questions        |-> ToUint8Array(surveyData.questions),
                       salt             |-> ToUint8Array(surveyData.salt),
                       created_at       |-> surveyData.createdAt,
                       expires_at       |-> surveyData.expiresAt,
                       max_responses    |-> surveyData.maxResponses,
                       creator_key_hash |-> surveyData.creatorKeyHash]},
            responses)

\* the INSERT without the unique index of schema 002 on analysis_id
createSurvey_noIndex(surveys, responses, surveyData) ==
    IF \E row \in surveys : row.id = surveyData.id
    THEN Outcome(Throw("D1_ERROR: UNIQUE constraint failed: surveys.id"),
                 surveys, responses)
    ELSE createSurvey_replace(surveys, responses, surveyData)

\* INSERT INTO surveys: id is the primary key, analysis_id has a unique index
createSurvey(surveys, responses, surveyData) ==
    IF \E row \in surveys : row.id = surveyData.id
    THEN Outcome(Throw("D1_ERROR: UNIQUE constraint failed: surveys.id"),
                 surveys, responses)
    ELSE IF \E row \in surveys : row.analysis_id = surveyData.analysisId
    THEN Outcome(Throw("D1_ERROR: UNIQUE constraint failed: surveys.analysis_id"),
                 surveys, responses)
    ELSE Outcome(Ok([id |-> surveyData.id, analysisId |-> surveyData.analysisId,
                     success |-> TRUE]),
                 surveys \cup {[id               |-> surveyData.id,
                                analysis_id      |-> surveyData.analysisId,
                                title            |-> surveyData.title,
                                description      |-> surveyData.description,
                                questions        |-> ToUint8Array(surveyData.questions),
                                salt             |-> ToUint8Array(surveyData.salt),
                                created_at       |-> surveyData.createdAt,
                                expires_at       |-> surveyData.expiresAt,
                                max_responses    |-> surveyData.maxResponses,
                                creator_key_hash |-> surveyData.creatorKeyHash]},
                 responses)

\* SELECT * FROM surveys WHERE id = ?  (.first(): a set with the row, or empty)
getSurvey(surveys, surveyId) ==
    {[id             |-> row.id,
      title          |-> row.title,
      description    |-> row.description,
      questions      |-> ArrayFrom(row.questions),
      salt           |-> ArrayFrom(row.salt),
      createdAt      |-> row.created_at,
      expiresAt      |-> row.expires_at,
      maxResponses   |-> row.max_responses,
      creatorKeyHash |-> row.creator_key_hash] :
        row \in {r \in surveys : r.id = surveyId}}

\* SELECT * FROM surveys WHERE analysis_id = ?
getSurveyByAnalysisId(surveys, analysisId) ==
    {[id             |-> row.id,
      analysisId     |-> row.analysis_id,
      title          |-> row.title,
      description    |-> row.description,
      questions      |-> ArrayFrom(row.questions),
      salt           |-> ArrayFrom(row.salt),
      createdAt      |-> row.created_at,
      expiresAt      |-> row.expires_at,
      maxResponses   |-> row.max_responses,
      creatorKeyHash |-> row.creator_key_hash] :
        row \in {r \in surveys : r.analysis_id = analysisId}}

\* SELECT COUNT(*) FROM responses WHERE survey_id = ?
getResponseCount(responses, surveyId) ==
    Cardinality({r \in responses : r.survey_id = surveyId})

\* the limit check off by one: the last response below the limit is refused
canAcceptResponses_early(surveys, responses, surveyId, time) ==
    LET found == getSurvey(surveys, surveyId)
    IN  IF found = {}
        THEN [canAccept |-> FALSE, reason |-> "Survey not found"]
        ELSE LET survey == CHOOSE x \in found : TRUE
             IN  IF Truthy(survey.expiresAt) /\ time > survey.expiresAt[1]
                 THEN [canAccept |-> FALSE, reason |-> "Survey has expired"]
                 ELSE IF /\ Truthy(survey.maxResponses)
                         /\ getResponseCount(responses, surveyId) + 1
                                >= survey.maxResponses[1]
                 THEN [canAccept |-> FALSE,
                       reason |-> "Survey has reached maximum responses"]
                 ELSE [canAccept |-> TRUE, reason |-> ""]

canAcceptResponses(surveys, responses, surveyId, time) ==
    LET found == getSurvey(surveys, surveyId)
    IN  IF found = {}
        THEN [canAccept |-> FALSE, reason |-> "Survey not found"]
        ELSE LET survey == CHOOSE x \in found : TRUE
             IN  IF Truthy(survey.expiresAt) /\ time > survey.expiresAt[1]
                 THEN [canAccept |-> FALSE, reason |-> "Survey has expired"]
                 ELSE IF /\ Truthy(survey.maxResponses)
                         /\ getResponseCount(responses, surveyId)
                                >= survey.maxResponses[1]
                 THEN [canAccept |-> FALSE,
                       reason |-> "Survey has reached maximum responses"]
                 ELSE [canAccept |-> TRUE, reason |-> ""]

\* an INSERT OR REPLACE in place of the INSERT: a stored response id is overwritten
submitResponse_replace(surveys, responses, responseData, time) ==
    LET canAccept == canAcceptResponses(surveys, responses,
                                        responseData.surveyId, time)
    IN  IF ~canAccept.canAccept
        THEN Outcome(Throw(canAccept.reason), surveys, responses)
        ELSE Outcome(Ok([id |-> responseData.id, success |-> TRUE]),
                     surveys,
                     {r \in responses : r.id # responseData.id}
                         \cup {[id           |-> responseData.id,
                                survey_id    |-> responseData.surveyId,
                                answers      |-> ToUint8Array(responseData.answers),
                                submitted_at |-> responseData.submittedAt]})

\* the INSERT runs before the checks of canAcceptResponses
submitResponse_insertFirst(surveys, responses, responseData, time) ==
    LET canAccept == canAcceptResponses(surveys, responses,
                                        responseData.surveyId, time)
        inserted  == responses \cup {[id           |-> responseData.id,
                                      survey_id    |-> responseData.surveyId,
                                      answers      |-> ToUint8Array(responseData.answers),
                                      submitted_at |-> responseData.submittedAt]}
    IN  IF \E row \in responses : row.id = responseData.id
        THEN Outcome(Throw("D1_ERROR: UNIQUE constraint failed: responses.id"),
                     surveys, responses)
        ELSE IF ~canAccept.canAccept
        THEN Outcome(Throw(canAccept.reason), surveys, inserted)
        ELSE Outcome(Ok([id |-> responseData.id, success |-> TRUE]), surveys, inserted)

\* INSERT INTO responses: id is the primary key, survey_id references surveys(id)
submitResponse(surveys, responses, responseData, time) ==
    LET canAccept == canAcceptResponses(surveys, responses,
                                        responseData.surveyId, time)
    IN  IF ~canAccept.canAccept
        THEN Outcome(Throw(canAccept.reason), surveys, responses)
        ELSE IF \E row \in responses : row.id = responseData.id
        THEN Outcome(Throw("D1_ERROR: UNIQUE constraint failed: responses.id"),
                     surveys, responses)
        ELSE Outcome(Ok([id |-> responseData.id, success |-> TRUE]),
                     surveys,
                     responses \cup {[id           |-> responseData.id,
                                      survey_id    |-> responseData.surveyId,
                                      answers      |-> ToUint8Array(responseData.answers),
                                      submitted_at |-> responseData.submittedAt]})

RECURSIVE OrderBySubmittedAt(_, _)
\* ORDER BY submitted_at ASC (descending = FALSE) or DESC (descending = TRUE)
OrderBySubmittedAt(rows, descending) ==
    IF rows = {}
    THEN <<>>
    ELSE LET first == CHOOSE r \in rows : \A o \in rows :
                          IF descending
                          THEN r.submitted_at >= o.submitted_at
                          ELSE r.submitted_at <= o.submitted_at
         IN  <<first>> \o OrderBySubmittedAt(rows \ {first}, descending)

\* results.map(row => ({id, answers, submittedAt}))
MapResponses(rows) ==
    [i \in 1..Len(rows) |-> [id          |-> rows[i].id,
                             answers     |-> ArrayFrom(rows[i].answers),
                             submittedAt |-> rows[i].submitted_at]]

\* ORDER BY submitted_at ASC in place of DESC
getSurveyResponsesByAnalysisId_ascending(surveys, responses, analysisId, creatorKeyHash) ==
    LET found == getSurveyByAnalysisId(surveys, analysisId)
    IN  IF found = {}
        THEN Throw("Survey not found")
        ELSE LET survey == CHOOSE x \in found : TRUE
             IN  IF survey.creatorKeyHash # creatorKeyHash
                 THEN Throw("Unauthorized - incorrect creator key")
                 ELSE Ok(MapResponses(OrderBySubmittedAt(
                            {r \in responses : r.survey_id = survey.id}, FALSE)))

getSurveyResponsesByAnalysisId(surveys, responses, analysisId, creatorKeyHash) ==
    LET found == getSurveyByAnalysisId(surveys, analysisId)
    IN  IF found = {}
        THEN Throw("Survey not found")
        ELSE LET survey == CHOOSE x \in found : TRUE
             IN  IF survey.creatorKeyHash # creatorKeyHash
                 THEN Throw("Unauthorized - incorrect creator key")
                 ELSE Ok(MapResponses(OrderBySubmittedAt(
                            {r \in responses : r.survey_id = survey.id}, TRUE)))

getSurveyResponses(surveys, responses, surveyId, creatorKeyHash) ==
    LET found == getSurvey(surveys, surveyId)
    IN  IF found = {}
        THEN Throw("Survey not found")
        ELSE LET survey == CHOOSE x \in found : TRUE
             IN  IF survey.creatorKeyHash # creatorKeyHash
                 THEN Throw("Unauthorized - incorrect creator key")
                 ELSE Ok(MapResponses(OrderBySubmittedAt(
                            {r \in responses : r.survey_id = surveyId}, FALSE)))

getSurveyStatsByAnalysisId(surveys, responses, analysisId, creatorKeyHash, time) ==
    LET found == getSurveyByAnalysisId(surveys, analysisId)
    IN  IF found = {}
        THEN Throw("Survey not found")
        ELSE LET survey        == CHOOSE x \in found : TRUE
                 responseCount == getResponseCount(responses, survey.id)
             IN  IF survey.creatorKeyHash # creatorKeyHash
                 THEN Throw("Unauthorized - incorrect creator key")
                 ELSE Ok([surveyId      |-> survey.id,
                          analysisId    |-> survey.analysisId,
                          responseCount |-> responseCount,
                          createdAt     |-> survey.createdAt,
                          expiresAt     |-> survey.expiresAt,
                          maxResponses  |-> survey.maxResponses,
                          isExpired     |-> IF Truthy(survey.expiresAt)
                                            THEN time > survey.expiresAt[1]
                                            ELSE FALSE,
                          isAtLimit     |-> IF Truthy(survey.maxResponses)
                                            THEN responseCount >= survey.maxResponses[1]
                                            ELSE FALSE])

getSurveyStats(surveys, responses, surveyId, creatorKeyHash, time) ==
    LET found == getSurvey(surveys, surveyId)
    IN  IF found = {}
        THEN Throw("Survey not found")
        ELSE LET survey        == CHOOSE x \in found : TRUE
                 responseCount == getResponseCount(responses, surveyId)
             IN  IF survey.creatorKeyHash # creatorKeyHash
                 THEN Throw("Unauthorized - incorrect creator key")
                 ELSE Ok([surveyId      |-> surveyId,
                          responseCount |-> responseCount,
                          createdAt     |-> survey.createdAt,
                          expiresAt     |-> survey.expiresAt,
                          maxResponses  |-> survey.maxResponses,
                          isExpired     |-> IF Truthy(survey.expiresAt)
                                            THEN time > survey.expiresAt[1]
                                            ELSE FALSE,
                          isAtLimit     |-> IF Truthy(survey.maxResponses)
                                            THEN responseCount >= survey.maxResponses[1]
                                            ELSE FALSE])

\* only the survey row is deleted
DeleteRows_surveyOnly(surveys, responses, surveyId) ==
    Outcome(Ok([deletedSurvey |-> TRUE, deletedResponses |-> 0]),
            {row \in surveys : row.id # surveyId},
            responses)

\* DELETE FROM responses without its WHERE clause
DeleteRows_allResponses(surveys, responses, surveyId) ==
    Outcome(Ok([deletedSurvey    |-> TRUE,
                deletedResponses |-> Cardinality(responses)]),
            {row \in surveys : row.id # surveyId},
            {})

\* DELETE FROM responses WHERE survey_id = ?; DELETE FROM surveys WHERE id = ?
DeleteRows(surveys, responses, surveyId) ==
    Outcome(Ok([deletedSurvey    |-> TRUE,
                deletedResponses |-> getResponseCount(responses, surveyId)]),
            {row \in surveys : row.id # surveyId},
            {r \in responses : r.survey_id # surveyId})

\* the creator check is missing
deleteSurveyByAnalysisId_noAuth(surveys, responses, analysisId, creatorKeyHash) ==
    LET found == {row \in surveys : row.analysis_id = analysisId}
    IN  IF found = {}
        THEN Outcome(Throw("Survey not found"), surveys, responses)
        ELSE DeleteRows(surveys, responses, (CHOOSE x \in found : TRUE).id)

deleteSurveyByAnalysisId(surveys, responses, analysisId, creatorKeyHash) ==
    LET found == {row \in surveys : row.analysis_id = analysisId}
    IN  IF found = {}
        THEN Outcome(Throw("Survey not found"), surveys, responses)
        ELSE LET survey == CHOOSE x \in found : TRUE
             IN  IF survey.creator_key_hash # creatorKeyHash
                 THEN Outcome(Throw("Unauthorized - only survey creator can delete"),
                              surveys, responses)
                 ELSE DeleteRows(surveys, responses, survey.id)

deleteSurvey(surveys, responses, surveyId, creatorKeyHash) ==
    LET found == {row \in surveys : row.id = surveyId}
    IN  IF found = {}
        THEN Outcome(Throw("Survey not found"), surveys, responses)
        ELSE LET survey == CHOOSE x \in found : TRUE
             IN  IF survey.creator_key_hash # creatorKeyHash
                 THEN Outcome(Throw("Unauthorized - only survey creator can delete"),
                              surveys, responses)
                 ELSE DeleteRows(surveys, responses, surveyId)

\* created_at <= ? in both statements: a survey created at the cutoff goes too
cleanupExpiredSurveys_atCutoff(surveys, responses, maxAge, time) ==
    LET cutoffTime == time - maxAge
        expired    == {row \in surveys : row.created_at <= cutoffTime}
    IN  Outcome(Ok([deletedCount |-> Cardinality(expired)]),
                surveys \ expired,
                {r \in responses : \A row \in expired : r.survey_id # row.id})

\* DELETE FROM responses WHERE survey_id IN (SELECT id FROM surveys WHERE
\* created_at < ?); DELETE FROM surveys WHERE created_at < ?
cleanupExpiredSurveys(surveys, responses, maxAge, time) ==
    LET cutoffTime == time - maxAge
        expired    == {row \in surveys : row.created_at < cutoffTime}
    IN  Outcome(Ok([deletedCount |-> Cardinality(expired)]),
                surveys \ expired,
                {r \in responses : \A row \in expired : r.survey_id # row.id})

\* ------------------------------------------------------------------------
\* Worker: the API routes.  A request is its method, its path
\* /api/<resource>[/<id>][/<tail>], the keyHash query parameter (<<>> when
\* absent) and its JSON body (<<>> when there is none, else <<object>>).
\* A handler returns the response and the tables after it.
\* ------------------------------------------------------------------------

Base36Digits ==
    <<48, 49, 50, 51, 52, 53, 54, 55, 56, 57,
      97, 98, 99, 100, 101, 102, 103, 104, 105, 106, 107, 108, 109,
      110, 111, 112, 113, 114, 115, 116, 117, 118, 119, 120, 121, 122>>

RECURSIVE ToString36(_)
\* Number.prototype.toString(36) of a non-negative integer
ToString36(n) ==
    IF n < 36
    THEN <<Base36Digits[n + 1]>>
    ELSE ToString36(n \div 36) \o <<Base36Digits[(n % 36) + 1]>>

ToUpperCase(string) ==
    Tuple([i \in 1..Len(string) |->
              IF string[i] \in 97..122 THEN string[i] - 32 ELSE string[i]])

\* String.prototype.substring(start, end), 0 <= start <= end
Substring(string, start, end) ==
    SubSeq(string, start + 1, IF end < Len(string) THEN end ELSE Len(string))

\* randomString is Math.random().toString(36)
generateId(time, randomString) ==
    LET timestamp  == ToString36(time)
        randomPart == Substring(randomString, 2, 15)
    IN  Substring(ToUpperCase(timestamp \o randomPart), 0, 26)

IsAlphanumeric(c) ==
    \/ c \in 48..57
    \/ c \in 65..90
    \/ c \in 97..122

\* the path segment matches ([a-zA-Z0-9]+)
MatchesId(segment) ==
    /\ segment # <<>>
    /\ \A i \in 1..Len(segment) : IsAlphanumeric(segment[i])

Handled(response, surveys, responses) ==
    [response |-> response, surveys |-> surveys, responses |-> responses]

apiResponse(data, status) ==
    [status |-> status, body |-> data]

errorResponse(message, status) ==
    apiResponse([success |-> FALSE, error |-> message], status)

\* new Response(null, {status: 204})
handleOptions ==
    [status |-> 204, body |-> Null]

\* the first of id, salt, encryptedData, keyHash, createdAt that is falsy
MissingField(encryptedSurvey) ==
    IF encryptedSurvey.id = Null THEN "id"
    ELSE IF encryptedSurvey.salt = Null THEN "salt"
    ELSE IF encryptedSurvey.encryptedData = Null THEN "encryptedData"
    ELSE IF encryptedSurvey.keyHash = Null THEN "keyHash"
    ELSE IF encryptedSurvey.createdAt = 0 THEN "createdAt"
    ELSE ""

MissingFieldMessage ==
    [id            |-> "Missing required field: id",
     salt          |-> "Missing required field: salt",
     encryptedData |-> "Missing required field: encryptedData",
     keyHash       |-> "Missing required field: keyHash",
     createdAt     |-> "Missing required field: createdAt"]

\* x || null
OrNull(x) ==
    IF Truthy(x) THEN x ELSE Null

\* the salt is stored in the questions column
SurveyDataOf_saltAsQuestions(encryptedSurvey, analysisId) ==
    [id             |-> encryptedSurvey.id,
     analysisId     |-> analysisId,
     title          |-> <<>>,
     description    |-> <<>>,
     questions      |-> encryptedSurvey.salt,
     salt           |-> encryptedSurvey.salt,
     createdAt      |-> encryptedSurvey.createdAt,
     expiresAt      |-> OrNull(encryptedSurvey.expiresAt),
     maxResponses   |-> OrNull(encryptedSurvey.maxResponses),
     creatorKeyHash |-> encryptedSurvey.keyHash]

\* the row built from the package, given the analysis id minted for it
SurveyDataOf(encryptedSurvey, analysisId) ==
    [id             |-> encryptedSurvey.id,
     analysisId     |-> analysisId,
     title          |-> <<>>,
     description    |-> <<>>,
     questions      |-> encryptedSurvey.encryptedData,
     salt           |-> encryptedSurvey.salt,
     createdAt      |-> encryptedSurvey.createdAt,
     expiresAt      |-> OrNull(encryptedSurvey.expiresAt),
     maxResponses   |-> OrNull(encryptedSurvey.maxResponses),
     creatorKeyHash |-> encryptedSurvey.keyHash]

handleCreateSurvey(surveys, responses, request, time, randomString) ==
    IF request.body = Null
    THEN Handled(errorResponse("Unexpected end of JSON input", 500),
                 surveys, responses)
    ELSE IF request.body[1].encryptedSurvey = Null
    THEN Handled(errorResponse("Missing encrypted survey data", 400),
                 surveys, responses)
    ELSE LET encryptedSurvey == request.body[1].encryptedSurvey[1]
             missing         == MissingField(encryptedSurvey)
         IN  IF missing # ""
             THEN Handled(errorResponse(MissingFieldMessage[missing], 400),
                          surveys, responses)
             ELSE LET surveyData == SurveyDataOf(encryptedSurvey,
                                                 generateId(time, randomString))
                      created    == createSurvey(surveys, responses, surveyData)
                  IN  IF ~created.result.ok
                      THEN Handled(errorResponse(created.result.error, 500),
                                   surveys, responses)
                      ELSE Handled(
                               apiResponse(
                                   [success |-> TRUE,
                                    data |-> [id          |-> created.result.value.id,
                                              analysisId  |-> created.result.value.analysisId,
                                              url         |-> [prefix |-> "/survey/",
                                                               id |-> created.result.value.id],
                                              analysisUrl |-> [prefix |-> "/analyze/",
                                                               id |-> created.result.value.analysisId]]],
                                   200),
                               created.surveys, created.responses)

\* what both survey lookups reply with
SurveyReply(survey) ==
    apiResponse([success |-> TRUE,
                 data |-> [id            |-> survey.id,
                           salt          |-> survey.salt,
                           encryptedData |-> survey.questions,
                           keyHash       |-> survey.creatorKeyHash,
                           createdAt     |-> survey.createdAt,
                           expiresAt     |-> survey.expiresAt,
                           maxResponses  |-> survey.maxResponses]],
                200)

\* the reply also carries the analysis id of the stored row
handleGetSurvey_withAnalysisId(surveys, responses, surveyId) ==
    LET found == getSurveyByAnalysisId(surveys,
                     (CHOOSE row \in surveys : row.id = surveyId).analysis_id)
    IN  IF getSurvey(surveys, surveyId) = {}
        THEN Handled(errorResponse("Survey not found", 404), surveys, responses)
        ELSE LET survey == CHOOSE x \in found : TRUE
             IN  Handled(apiResponse([success |-> TRUE,
                                      data |-> [id         |-> survey.id,
                                                analysisId |-> survey.analysisId,
                                                keyHash    |-> survey.creatorKeyHash]],
                                     200),
                         surveys, responses)

handleGetSurvey(surveys, responses, surveyId) ==
    LET found == getSurvey(surveys, surveyId)
    IN  IF found = {}
        THEN Handled(errorResponse("Survey not found", 404), surveys, responses)
        ELSE Handled(SurveyReply(CHOOSE x \in found : TRUE), surveys, responses)

handleGetSurveyByAnalysisId(surveys, responses, analysisId) ==
    LET found == getSurveyByAnalysisId(surveys, analysisId)
    IN  IF found = {}
        THEN Handled(errorResponse("Survey not found", 404), surveys, responses)
        ELSE Handled(SurveyReply(CHOOSE x \in found : TRUE), surveys, responses)

handleSubmitResponse(surveys, responses, surveyId, request, time) ==
    IF request.body = Null
    THEN Handled(errorResponse("Unexpected end of JSON input", 500),
                 surveys, responses)
    ELSE IF request.body[1].encryptedResponse = Null
    THEN Handled(errorResponse("Missing encrypted response data", 400),
                 surveys, responses)
    ELSE LET encryptedResponse == request.body[1].encryptedResponse[1]
             canAccept == canAcceptResponses(surveys, responses, surveyId, time)
             responseData == [id          |-> encryptedResponse.id,
                              surveyId    |-> surveyId,
                              answers     |-> encryptedResponse.encryptedAnswers,
                              submittedAt |-> time]
             submitted == submitResponse(surveys, responses, responseData, time)
         IN  IF encryptedResponse.id = Null \/ encryptedResponse.encryptedAnswers = Null
             THEN Handled(errorResponse("Missing required response fields", 400),
                          surveys, responses)
             ELSE IF ~canAccept.canAccept
             THEN Handled(errorResponse(canAccept.reason, 400), surveys, responses)
             ELSE IF ~submitted.result.ok
             THEN Handled(errorResponse(submitted.result.error, 500),
                          surveys, responses)
             ELSE Handled(apiResponse([success |-> TRUE,
                                       data |-> [id |-> submitted.result.value.id]],
                                      200),
                          submitted.surveys, submitted.responses)

\* error.message.includes('Unauthorized')
IncludesUnauthorized(message) ==
    message \in {"Unauthorized - incorrect creator key",
                 "Unauthorized - only survey creator can delete"}

\* error.message.includes('not found')
IncludesNotFound(message) ==
    message = "Survey not found"

handleGetResponses(surveys, responses, surveyId, request, time) ==
    LET keyHash == request.keyHash
        listed  == getSurveyResponses(surveys, responses, surveyId, keyHash)
        stats   == getSurveyStats(surveys, responses, surveyId, keyHash, time)
        thrown  == IF ~listed.ok THEN listed.error ELSE stats.error
    IN  IF keyHash = Null
        THEN Handled(errorResponse("Missing authorization key hash", 401),
                     surveys, responses)
        ELSE IF listed.ok /\ stats.ok
        THEN Handled(apiResponse([success |-> TRUE,
                                  data |-> [responses |-> listed.value,
                                            stats     |-> stats.value]],
                                 200),
                     surveys, responses)
        ELSE IF IncludesUnauthorized(thrown)
        THEN Handled(errorResponse(thrown, 401), surveys, responses)
        ELSE Handled(errorResponse(thrown, 500), surveys, responses)

handleGetResponsesByAnalysisId(surveys, responses, analysisId, request, time) ==
    LET keyHash == request.keyHash
        listed  == getSurveyResponsesByAnalysisId(surveys, responses, analysisId, keyHash)
        stats   == getSurveyStatsByAnalysisId(surveys, responses, analysisId, keyHash, time)
        thrown  == IF ~listed.ok THEN listed.error ELSE stats.error
    IN  IF keyHash = Null
        THEN Handled(errorResponse("Missing authorization key hash", 401),
                     surveys, responses)
        ELSE IF listed.ok /\ stats.ok
        THEN Handled(apiResponse([success |-> TRUE,
                                  data |-> [responses |-> listed.value,
                                            stats     |-> stats.value]],
                                 200),
                     surveys, responses)
        ELSE IF IncludesUnauthorized(thrown)
        THEN Handled(errorResponse(thrown, 401), surveys, responses)
        ELSE Handled(errorResponse(thrown, 500), surveys, responses)

\* what both delete handlers make of the outcome of their delete
DeleteReply(deleted, surveys, responses) ==
    IF deleted.result.ok
    THEN Handled(apiResponse([success |-> TRUE, data |-> deleted.result.value], 200),
                 deleted.surveys, deleted.responses)
    ELSE IF \/ IncludesUnauthorized(deleted.result.error)
            \/ IncludesNotFound(deleted.result.error)
    THEN Handled(errorResponse(deleted.result.error, 401), surveys, responses)
    ELSE Handled(errorResponse(deleted.result.error, 500), surveys, responses)

handleDeleteSurveyByAnalysisId(surveys, responses, analysisId, request) ==
    IF request.keyHash = Null
    THEN Handled(errorResponse("Missing authorization key hash", 401),
                 surveys, responses)
    ELSE DeleteReply(deleteSurveyByAnalysisId(surveys, responses, analysisId,
                                              request.keyHash),
                     surveys, responses)

handleDeleteSurvey(surveys, responses, surveyId, request) ==
    IF request.keyHash = Null
    THEN Handled(errorResponse("Missing authorization key hash", 401),
                 surveys, responses)
    ELSE DeleteReply(deleteSurvey(surveys, responses, surveyId, request.keyHash),
                     surveys, responses)

handleRequest(surveys, responses, request, time, randomString) ==
    LET isId == MatchesId(request.id)
    IN  IF request.method = "OPTIONS"
        THEN Handled(handleOptions, surveys, responses)
        ELSE IF /\ request.resource = "survey" /\ request.id = Null
                /\ request.tail = "" /\ request.method = "POST"
        THEN handleCreateSurvey(surveys, responses, request, time, randomString)
        ELSE IF /\ request.resource = "survey" /\ isId
                /\ request.tail = "" /\ request.method = "GET"
        THEN handleGetSurvey(surveys, responses, request.id)
        ELSE IF /\ request.resource = "survey" /\ isId
                /\ request.tail = "response" /\ request.method = "POST"
        THEN handleSubmitResponse(surveys, responses, request.id, request, time)
        ELSE IF /\ request.resource = "survey" /\ isId
                /\ request.tail = "responses" /\ request.method = "GET"
        THEN handleGetResponses(surveys, responses, request.id, request, time)
        ELSE IF /\ request.resource = "survey" /\ isId
                /\ request.tail = "" /\ request.method = "DELETE"
        THEN handleDeleteSurvey(surveys, responses, request.id, request)
        ELSE IF /\ request.resource = "analysis" /\ isId
                /\ request.tail = "survey" /\ request.method = "GET"
        THEN handleGetSurveyByAnalysisId(surveys, responses, request.id)
        ELSE IF /\ request.resource = "analysis" /\ isId
                /\ request.tail = "responses" /\ request.method = "GET"
        THEN handleGetResponsesByAnalysisId(surveys, responses, request.id,
                                            request, time)
        ELSE IF /\ request.resource = "analysis" /\ isId
                /\ request.tail = "" /\ request.method = "DELETE"
        THEN handleDeleteSurveyByAnalysisId(surveys, responses, request.id, request)
        ELSE Handled(errorResponse("API endpoint not found", 404),
                     surveys, responses)

\* ------------------------------------------------------------------------
\* State
\* ------------------------------------------------------------------------

VARIABLES
    now,        \* Date.now()
    rng,        \* blocks the CSPRNG has produced
    sealed,     \* packages the creator holds, each with its content and password
    boxes,      \* the encryptData calls made so far: key, plaintext, output
    outcome,    \* the codec call in progress: what it was given, what it returned
    surveys,    \* table surveys
    responses,  \* table responses
    reply,      \* <<>>, or the request just handled, who sent it, and its response
    links,      \* the id and analysis id of each survey the creator has created
    known,      \* the ids and key hashes a client without any password has seen
    calls,      \* the database operations in progress, each at one of its statements
    foreignKeys \* whether the database enforces FOREIGN KEY constraints

vars ==
    <<now, rng, sealed, boxes, outcome, surveys, responses, reply, links, known, calls, foreignKeys>>

\* the server's tables and what is in flight to and from it
api ==
    <<surveys, responses, reply, links, known, calls, foreignKeys>>

Idle ==
    [op |-> "none"]

\* the workers that may be inside a database operation at the same time
Callers ==
    {"p", "q"}

\* a caller that is in no database operation
NoCall ==
    [op |-> "none", pc |-> "", args |-> <<>>, survey |-> {}, changes |-> 0,
     rows |-> <<>>]

\* the state after construction, but for the setting of the database
InitProgram ==
    /\ now = 1
    /\ rng = 0
    /\ sealed = {}
    /\ boxes = <<>>
    /\ outcome = Idle
    /\ surveys = {}
    /\ responses = {}
    /\ reply = <<>>
    /\ links = {}
    /\ known = {}
    /\ calls = [c \in Callers |-> NoCall]

\* D1 enforces foreign keys unless a deployment defers them
Init ==
    /\ InitProgram
    /\ foreignKeys = TRUE

\* the clock advances
Tick ==
    /\ outcome = Idle
    /\ reply = <<>>
    /\ now < MaxTime
    /\ now' = now + 1
    /\ UNCHANGED <<rng, sealed, boxes, outcome>>
    /\ UNCHANGED api

\* the caller of the codec takes the result; the next call can start
Return ==
    /\ outcome # Idle
    /\ outcome' = Idle
    /\ UNCHANGED <<now, rng, sealed, boxes>>
    /\ UNCHANGED api

\* the creator seals a survey: createEncryptedSurvey(surveyData, password)
SealWith(surveyData, password) ==
    LET result == createEncryptedSurvey(surveyData, password, rng, now)
    IN  /\ outcome = Idle
        /\ outcome' = [op |-> "seal", data |-> surveyData,
                       password |-> password, result |-> result]
        /\ rng' = rng + createEncryptedSurveyDraws(password)
        /\ IF result.ok
           THEN /\ sealed' = sealed \cup {[pkg |-> result.value,
                                           data |-> surveyData,
                                           password |-> password]}
                /\ boxes' = Append(boxes,
                       [key    |-> deriveKey(password, ToUint8Array(result.value.salt)),
                        data   |-> surveyData,
                        output |-> ToUint8Array(result.value.encryptedData)])
           ELSE UNCHANGED <<sealed, boxes>>
        /\ UNCHANGED now
        /\ UNCHANGED api

Seal ==
    /\ Cardinality(sealed) < MaxSeals
    /\ \E surveyData \in JsonValues, password \in Passwords :
            SealWith(surveyData, password)

\* a holder of the password seals answers under the survey's key: the key
\* is the one decryptSurvey returns, the sealing is encryptData(answers, key)
SealAnswers ==
    /\ outcome = Idle
    /\ Len(boxes) < Cardinality(sealed) + MaxBoxes
    /\ \E s \in sealed :
        LET opened == decryptSurvey(s.pkg, s.password)
        IN  /\ opened.ok
            /\ \E answers \in Answers \cup {s.data} :
                LET output == encryptData(answers, opened.value.key, rng)
                IN  /\ rng' = rng + 1
                    /\ boxes' = Append(boxes, [key |-> opened.value.key,
                                               data |-> answers,
                                               output |-> output])
                    /\ outcome' = [op |-> "box", data |-> answers,
                                   output |-> output]
    /\ UNCHANGED <<now, sealed>>
    /\ UNCHANGED api

\* decryptSurvey(package, password) on a package as it was sealed
Open ==
    \E s \in sealed, password \in Passwords :
        /\ outcome = Idle
        /\ outcome' = [op |-> "open", source |-> s, flip |-> <<>>,
                       password |-> password,
                       result |-> decryptSurvey(s.pkg, password)]
        /\ UNCHANGED <<now, rng, sealed, boxes>>
        /\ UNCHANGED api

NextCodec ==
    \/ Return
    \/ Seal
    \/ Open

SpecCodec ==
    Init /\ [][NextCodec]_vars

\* ------------------------------------------------------------------------
\* Tampering: one bit of a sealed package's encryptedData is inverted in
\* storage or in transit, and the package is opened with its own password.
\* ------------------------------------------------------------------------

\* packages sealed in a behaviour of SpecTamper or SpecNonce
MaxTampered ==
    1

SealSurvey ==
    /\ Cardinality(sealed) < MaxTampered
    /\ \E surveyData \in Surveys, password \in Passwords :
            SealWith(surveyData, password)

OpenTampered ==
    \E s \in sealed :
        \E index \in 1..Len(s.pkg.encryptedData), bit \in 0..7 :
            LET tampered == [s.pkg EXCEPT
                                !.encryptedData = FlipBit(@, index, bit)]
            IN  /\ outcome = Idle
                /\ outcome' = [op |-> "open", source |-> s,
                               flip |-> <<index, bit>>,
                               password |-> s.password,
                               result |-> decryptSurvey(tampered, s.password)]
                /\ UNCHANGED <<now, rng, sealed, boxes>>
                /\ UNCHANGED api

NextTamper ==
    \/ Return
    \/ SealSurvey
    \/ Open
    \/ OpenTampered

SpecTamper ==
    Init /\ [][NextTamper]_vars

\* ------------------------------------------------------------------------
\* Claims about the codec
\* ------------------------------------------------------------------------

OpenedAsSealed ==
    /\ outcome.op = "open"
    /\ outcome.flip = <<>>

\* C1: round trip.  Sealing a structured value under a password that
\* validatePassword accepts succeeds, and opening the package with the same
\* password succeeds and returns the value that was sealed.
C1_RoundTrip ==
    /\ (outcome.op = "seal" /\ validatePassword(outcome.password).valid)
            => outcome.result.ok
    /\ (OpenedAsSealed /\ outcome.password = outcome.source.password)
            => /\ outcome.result.ok
               /\ outcome.result.value.surveyData = outcome.source.data

C1_Witness ==
    /\ OpenedAsSealed
    /\ outcome.source.password = PasswordGood
    /\ outcome.password = PasswordGood
    /\ outcome.source.data = SurveyT
    /\ outcome.result.ok
    /\ outcome.result.value.surveyData = SurveyT

\* C2: wrong password.  Opening a package with a password other than the
\* one it was sealed with fails with 'Invalid password': no value is
\* returned and the error is not one raised by decryptData.
C2_WrongPassword ==
    (OpenedAsSealed /\ outcome.password # outcome.source.password)
        => /\ ~outcome.result.ok
           /\ outcome.result.error = "Invalid password"

C2_Witness ==
    /\ OpenedAsSealed
    /\ outcome.source.password = PasswordGood
    /\ outcome.password = PasswordOther
    /\ ~outcome.result.ok
    /\ outcome.result.error = "Invalid password"

\* C8: tamper detection.  With any single bit of encryptedData inverted,
\* opening with the correct password fails, and the failure is the one
\* decryptData raises for a box that does not authenticate, not the
\* wrong-password error.
C8_TamperDetected ==
    (outcome.op = "open" /\ outcome.flip # <<>>
        /\ outcome.password = outcome.source.password)
        => /\ ~outcome.result.ok
           /\ outcome.result.error
                = "Decryption failed - incorrect password or corrupted data"
           /\ outcome.result.error # "Invalid password"

\* the last bit of the last byte of a sealed survey was inverted
C8_Witness ==
    /\ outcome.op = "open"
    /\ outcome.flip = <<Len(outcome.source.pkg.encryptedData), 7>>
    /\ outcome.source.data = SurveyT
    /\ outcome.password = outcome.source.password
    /\ ~outcome.result.ok

\* ------------------------------------------------------------------------
\* Sealing under one key again and again: a survey is sealed, and answers
\* are sealed under its key
\* ------------------------------------------------------------------------

NextNonce ==
    \/ Return
    \/ SealSurvey
    \/ SealAnswers

SpecNonce ==
    Init /\ [][NextNonce]_vars

BoxNonce(box) ==
    SliceTo(box.output, NonceLength)

\* C9: nonce uniqueness.  Every encryptData call puts a block drawn from
\* randomBytes in front of its output, and no two calls under the same key
\* use the same nonce or give the same output, also when they seal the same
\* plaintext.
C9_NonceUnique ==
    /\ \A i \in 1..Len(boxes) :
          \E counter \in 0..(rng - 1) :
              BoxNonce(boxes[i]) = randomBytes(NonceLength, counter)
    /\ \A i, j \in 1..Len(boxes) :
          (i # j /\ boxes[i].key = boxes[j].key)
              => /\ BoxNonce(boxes[i]) # BoxNonce(boxes[j])
                 /\ boxes[i].output # boxes[j].output

\* the same plaintext sealed twice under the same key
C9_Witness ==
    \E i, j \in 1..Len(boxes) :
        /\ i # j
        /\ boxes[i].key = boxes[j].key
        /\ boxes[i].data = boxes[j].data
        /\ boxes[i].output # boxes[j].output

\* ------------------------------------------------------------------------
\* The service: a creator seals surveys and creates them on the server, a
\* respondent who was given a survey's id and password submits answers, and
\* a client that holds no password sends whatever requests it can build
\* from the ids and key hashes it has been given or has read in replies.
\* Requests are handled one at a time and within one millisecond; the
\* interleaving of the handlers' statements and the passing of time are
\* not part of this specification.
\* ------------------------------------------------------------------------

\* surveys the creator seals in a behaviour of Spec
MaxSurveys ==
    1

\* surveys the creator seals in a behaviour of SpecAnalysis
MaxOwned ==
    2

\* answers the respondent seals
MaxResponses ==
    1

\* Math.random().toString(36): "0.4fzyo82mvyr" and "0.ilou7k2p9xq"
MathRandomStrings ==
    {<<48, 46, 52, 102, 122, 121, 111, 56, 50, 109, 118, 121, 114>>,
     <<48, 46, 105, 108, 111, 117, 55, 107, 50, 112, 57, 120, 113>>}

\* "not-an-id": a path segment the routes' pattern does not match
NotAnId ==
    <<110, 111, 116, 45, 97, 110, 45, 105, 100>>

\* "junkhash"
JunkHash ==
    <<106, 117, 110, 107, 104, 97, 115, 104>>

\* the expiresAt and maxResponses a creator attaches to a package: none
Limits ==
    {[expiresAt |-> Null, maxResponses |-> Null]}

\* the encryptedSurvey object of a creation request
Package(pkg, limits) ==
    [id            |-> pkg.id,
     salt          |-> pkg.salt,
     encryptedData |-> pkg.encryptedData,
     keyHash       |-> pkg.keyHash,
     createdAt     |-> pkg.createdAt,
     expiresAt     |-> limits.expiresAt,
     maxResponses  |-> limits.maxResponses]

Body(encryptedSurvey, encryptedResponse) ==
    <<[encryptedSurvey |-> encryptedSurvey, encryptedResponse |-> encryptedResponse]>>

Request(method, resource, id, tail, keyHash, body) ==
    [method |-> method, resource |-> resource, id |-> id, tail |-> tail,
     keyHash |-> keyHash, body |-> body]

\* a key hash is 64 hexadecimal characters; every id is shorter
IsKeyHash(string) ==
    Len(string) = 2 * KeyLength

\* what the client without a password can put in a path, and in ?keyHash=
IntruderIds ==
    {k \in known : ~IsKeyHash(k)}

IntruderHashes ==
    {k \in known : IsKeyHash(k)} \cup {Null, JunkHash}

\* the ids and key hashes of surveys that a response body carries
Learn(body) ==
    IF "data" \notin DOMAIN body
    THEN {}
    ELSE LET data == body.data
         IN  (IF "id" \in DOMAIN data /\ "keyHash" \in DOMAIN data
              THEN {data.id, data.keyHash} ELSE {})
             \cup (IF "analysisId" \in DOMAIN data THEN {data.id, data.analysisId} ELSE {})
             \cup (IF "stats" \in DOMAIN data
                   THEN {data.stats.surveyId}
                        \cup (IF "analysisId" \in DOMAIN data.stats
                              THEN {data.stats.analysisId} ELSE {})
                   ELSE {})

\* fetch(request): the worker handles it and the response is on its way back
Send(from, request, randomString) ==
    LET handled == handleRequest(surveys, responses, request, now, randomString)
    IN  /\ outcome = Idle
        /\ reply = <<>>
        /\ reply' = <<[from |-> from, request |-> request,
                       response |-> handled.response]>>
        /\ surveys' = handled.surveys
        /\ responses' = handled.responses
        /\ UNCHANGED <<now, rng, sealed, boxes, outcome, links, known, calls, foreignKeys>>

IsCreation(request) ==
    /\ request.method = "POST"
    /\ request.resource = "survey"
    /\ request.id = Null

\* the response reaches its client.  The creator notes the two ids of a
\* survey just created; the client without a password notes the ids and
\* key hashes it reads.
Deliver ==
    /\ reply # <<>>
    /\ reply' = <<>>
    /\ LET r    == reply[1]
           body == r.response.body
       IN  IF r.from = "creator" /\ IsCreation(r.request) /\ r.response.status = 200
           THEN /\ links' = links \cup {[id |-> body.data.id,
                                         analysisId |-> body.data.analysisId]}
                /\ UNCHANGED known
           ELSE IF r.from = "intruder"
           THEN /\ known' = known \cup Learn(body)
                /\ UNCHANGED links
           ELSE UNCHANGED <<links, known>>
    /\ UNCHANGED <<now, rng, sealed, boxes, outcome, surveys, responses, calls, foreignKeys>>

\* the creator hands one of the two ids of a survey to the client without
\* a password; the ids that client is given are those of one survey
Share ==
    /\ outcome = Idle
    /\ reply = <<>>
    /\ \E l \in links :
          /\ IntruderIds \subseteq {l.id, l.analysisId}
          /\ \E shared \in {l.id, l.analysisId} \ known :
                 known' = known \cup {shared}
    /\ UNCHANGED <<now, rng, sealed, boxes, outcome, surveys, responses, reply, links, calls, foreignKeys>>

\* the creator seals a survey once every survey sealed before is created
ClientSeal ==
    /\ reply = <<>>
    /\ Cardinality(sealed) < MaxSurveys
    /\ \A s \in sealed : \E l \in links : l.id = s.pkg.id
    /\ SealWith(SurveyT, PasswordGood)

SealOwned ==
    /\ reply = <<>>
    /\ Cardinality(sealed) < MaxOwned
    /\ SealWith(SurveyT, PasswordGood)

\* POST /api/survey with a sealed package.  The creator sends a package
\* until it has been created, and may repeat the request while it is stored.
PostSurvey ==
    \E s \in sealed, limits \in Limits, randomString \in MathRandomStrings :
        /\ \/ \A l \in links : l.id # s.pkg.id
           \/ \E row \in surveys : row.id = s.pkg.id
        /\ Send("creator",
                Request("POST", "survey", Null, "", Null,
                        Body(<<Package(s.pkg, limits)>>, Null)),
                randomString)

\* POST /api/survey with no body, no encryptedSurvey, or a required field missing
PostMalformed ==
    \E body \in {Null, Body(Null, Null)}
                \cup UNION {{Body(<<[Package(s.pkg, limits) EXCEPT !.id = Null]>>, Null),
                             Body(<<[Package(s.pkg, limits) EXCEPT !.salt = Null]>>, Null),
                             Body(<<[Package(s.pkg, limits) EXCEPT !.encryptedData = Null]>>, Null),
                             Body(<<[Package(s.pkg, limits) EXCEPT !.keyHash = Null]>>, Null),
                             Body(<<[Package(s.pkg, limits) EXCEPT !.createdAt = 0]>>, Null)} :
                                s \in sealed, limits \in {CHOOSE l \in Limits : TRUE}} :
        Send("intruder", Request("POST", "survey", Null, "", Null, body), Null)

\* GET /api/survey/:id
GetSurvey ==
    \/ \E s \in sealed :
          Send("respondent", Request("GET", "survey", s.pkg.id, "", Null, Null), Null)
    \/ \E id \in IntruderIds \cup {NotAnId} :
          Send("intruder", Request("GET", "survey", id, "", Null, Null), Null)

\* POST /api/survey/:id/response: the respondent opens the survey with its
\* password and seals the answers under the key, with a fresh response id
SubmitResponse ==
    \E s \in sealed, answers \in {AnswersYes} :
        LET opened  == decryptSurvey(s.pkg, s.password)
            output  == encryptData(answers, opened.value.key, rng + 1)
            request == Request("POST", "survey", s.pkg.id, "response", Null,
                               Body(Null, <<[id |-> generateUlid(now, rng),
                                             encryptedAnswers |-> ArrayFrom(output)]>>))
            handled == handleRequest(surveys, responses, request, now, Null)
        IN  /\ outcome = Idle
            /\ reply = <<>>
            /\ Len(boxes) < Cardinality(sealed) + MaxResponses
            /\ opened.ok
            /\ rng' = rng + 2
            /\ boxes' = Append(boxes, [key |-> opened.value.key, data |-> answers,
                                       output |-> output])
            /\ reply' = <<[from |-> "respondent", request |-> request,
                           response |-> handled.response]>>
            /\ surveys' = handled.surveys
            /\ responses' = handled.responses
            /\ UNCHANGED <<now, sealed, outcome, links, known, calls, foreignKeys>>

\* POST /api/survey/:id/response with no body, no encryptedResponse, or no answers
SubmitMalformed ==
    \E id \in IntruderIds,
       body \in {Null, Body(Null, Null),
                 Body(Null, <<[id |-> JunkHash, encryptedAnswers |-> Null]>>)} :
        Send("intruder", Request("POST", "survey", id, "response", Null, body), Null)

\* GET /api/survey/:id/responses?keyHash=
GetResponses ==
    \E id \in IntruderIds, keyHash \in IntruderHashes :
        Send("intruder", Request("GET", "survey", id, "responses", keyHash, Null), Null)

\* DELETE /api/survey/:id?keyHash=
DeleteSurvey ==
    \E id \in IntruderIds, keyHash \in IntruderHashes :
        Send("intruder", Request("DELETE", "survey", id, "", keyHash, Null), Null)

\* GET /api/analysis/:id/survey
GetSurveyByAnalysisId ==
    \E l \in links :
        Send("creator", Request("GET", "analysis", l.analysisId, "survey", Null, Null),
             Null)

\* the key hashes of the creator's packages, which it may pair with the
\* wrong link or leave out
CreatorHashes ==
    {s.pkg.keyHash : s \in sealed} \cup {Null}

\* GET /api/analysis/:id/responses?keyHash=
GetResponsesByAnalysisId ==
    \E l \in links, keyHash \in CreatorHashes :
        Send("creator",
             Request("GET", "analysis", l.analysisId, "responses", keyHash, Null),
             Null)

\* DELETE /api/analysis/:id?keyHash=
DeleteSurveyByAnalysisId ==
    \E l \in links, keyHash \in CreatorHashes :
        Send("creator",
             Request("DELETE", "analysis", l.analysisId, "", keyHash, Null),
             Null)

\* the same three requests from the client without a password
ProbeSurveyByAnalysisId ==
    \E id \in IntruderIds :
        Send("intruder", Request("GET", "analysis", id, "survey", Null, Null), Null)

ProbeResponsesByAnalysisId ==
    \E id \in IntruderIds, keyHash \in IntruderHashes :
        Send("intruder",
             Request("GET", "analysis", id, "responses", keyHash, Null), Null)

ProbeDeleteByAnalysisId ==
    \E id \in IntruderIds, keyHash \in IntruderHashes :
        Send("intruder", Request("DELETE", "analysis", id, "", keyHash, Null), Null)

\* OPTIONS on any path
Preflight ==
    /\ reply = <<>>
    /\ Send("intruder", Request("OPTIONS", "survey", Null, "", Null, Null), Null)

Next ==
    \/ Return
    \/ ClientSeal
    \/ PostSurvey
    \/ PostMalformed
    \/ GetSurvey
    \/ SubmitResponse
    \/ SubmitMalformed
    \/ GetResponses
    \/ DeleteSurvey
    \/ GetSurveyByAnalysisId
    \/ GetResponsesByAnalysisId
    \/ DeleteSurveyByAnalysisId
    \/ ProbeSurveyByAnalysisId
    \/ ProbeResponsesByAnalysisId
    \/ ProbeDeleteByAnalysisId
    \/ Preflight
    \/ Deliver
    \/ Share

Spec ==
    Init /\ [][Next]_vars

\* the creator alone, with several surveys and a respondent to each
NextAnalysis ==
    \/ Return
    \/ SealOwned
    \/ PostSurvey
    \/ SubmitResponse
    \/ GetResponsesByAnalysisId
    \/ DeleteSurveyByAnalysisId
    \/ Deliver

SpecAnalysis ==
    Init /\ [][NextAnalysis]_vars

\* ------------------------------------------------------------------------
\* Access control and what the server stores
\* ------------------------------------------------------------------------

\* GET /api/survey/:id/responses and DELETE /api/survey/:id
CreatorOnlyByResponseId(request) ==
    /\ request.resource = "survey"
    /\ request.id # Null
    /\ \/ request.method = "GET" /\ request.tail = "responses"
       \/ request.method = "DELETE" /\ request.tail = ""

\* GET /api/analysis/:id/responses and DELETE /api/analysis/:id
CreatorOnlyByAnalysisId(request) ==
    /\ request.resource = "analysis"
    /\ request.id # Null
    /\ \/ request.method = "GET" /\ request.tail = "responses"
       \/ request.method = "DELETE" /\ request.tail = ""

\* C3: a client that holds no password and does not know a survey's
\* analysis id never gets a creator-only request addressed by that
\* survey's response-scope id accepted, whatever key hash it supplies.
C3_ResponseIdOnly ==
    reply # <<>> =>
        LET r == reply[1]
        IN  ( /\ r.from = "intruder"
              /\ CreatorOnlyByResponseId(r.request)
              /\ \E l \in links : /\ l.id = r.request.id
                                  /\ l.analysisId \notin known )
            => r.response.status # 200

\* C4: a client that holds no password and was never given a key hash by
\* the creator never gets a creator-only request addressed by an analysis
\* id accepted: it finds no key hash that the server accepts.
C4_AnalysisIdAlone ==
    reply # <<>> =>
        LET r == reply[1]
        IN  (r.from = "intruder" /\ CreatorOnlyByAnalysisId(r.request))
            => r.response.status # 200

\* C5: a creator-only operation addressed by analysis id (list, stats,
\* delete, and the two requests built on them) succeeds only if a stored
\* survey has that analysis id and its creator_key_hash is the key hash
\* supplied; otherwise it fails with 'Survey not found' or 'Unauthorized'
\* and both tables are as they were.
C5_AnalysisOpsAuthorised ==
    [][ reply' # <<>> =>
          LET r       == reply'[1]
              aid     == r.request.id
              kh      == r.request.keyHash
              match   == \E row \in surveys : /\ row.analysis_id = aid
                                              /\ row.creator_key_hash = kh
              listed  == getSurveyResponsesByAnalysisId(surveys, responses, aid, kh)
              stats   == getSurveyStatsByAnalysisId(surveys, responses, aid, kh, now)
              deleted == deleteSurveyByAnalysisId(surveys, responses, aid, kh)
              Refused(result) ==
                  /\ ~result.ok
                  /\ result.error \in {"Survey not found",
                                       "Unauthorized - incorrect creator key",
                                       "Unauthorized - only survey creator can delete"}
          IN  CreatorOnlyByAnalysisId(r.request) =>
                /\ r.response.status = 200 => match
                /\ listed.ok => match
                /\ stats.ok => match
                /\ deleted.result.ok => match
                /\ ~match => /\ surveys' = surveys
                             /\ responses' = responses
                             /\ r.response.status \in {401, 500}
                             /\ ~r.response.body.success
                             /\ Refused(listed)
                             /\ Refused(stats)
                             /\ Refused(deleted.result)
                             /\ deleted.surveys = surveys
                             /\ deleted.responses = responses
      ]_vars

\* the key hash of one stored survey was sent with the analysis id of another, and refused
C5_Witness ==
    /\ reply # <<>>
    /\ CreatorOnlyByAnalysisId(reply[1].request)
    /\ reply[1].response.status = 401
    /\ \E a \in surveys, b \in surveys :
          /\ a.id # b.id
          /\ b.analysis_id = reply[1].request.id
          /\ a.creator_key_hash = reply[1].request.keyHash
          /\ a.creator_key_hash # b.creator_key_hash

\* every analysis id the server has assigned
AnalysisIds ==
    {row.analysis_id : row \in surveys} \cup {l.analysisId : l \in links}

C7_NoResponseIdLeak ==
    reply # <<>> =>
        LET r == reply[1]
        IN  \A row \in surveys :
                ( /\ r.request.resource = "analysis"
                  /\ r.request.id = row.analysis_id
                  /\ r.request.keyHash # row.creator_key_hash )
                => row.id \notin Learn(r.response.body)

\* needle occurs in hay as a run of consecutive elements
Contains(hay, needle) ==
    \/ needle = <<>>
    \/ \E i \in 0..(Len(hay) - Len(needle)) :
          /\ hay[i + 1] = needle[1]
          /\ SubSeq(hay, i + 1, i + Len(needle)) = needle

\* what must stay with the clients: every password, every derived key and
\* every serialized plaintext that was sealed
Secrets ==
    {s.password : s \in sealed}
    \cup {boxes[i].key : i \in 1..Len(boxes)}
    \cup {TextEncode(JSONstringify(boxes[i].data)) : i \in 1..Len(boxes)}

\* the columns of a row that hold text or bytes
SurveyColumns(row) ==
    {row.id, row.analysis_id, row.title, row.description, row.questions,
     row.salt, row.creator_key_hash}

ResponseColumns(row) ==
    {row.id, row.survey_id, row.answers}

PackageColumns(pkg) ==
    {pkg.id, ToUint8Array(pkg.salt), ToUint8Array(pkg.encryptedData), pkg.keyHash}

\* C11: the key and the password stay in the codec.  No field of a package
\* returned by createEncryptedSurvey is or contains the password or the
\* derived key, and what decryptSurvey returns is the structured value that
\* was sealed and nothing else.
C11_KeyStaysInCodec ==
    /\ (outcome.op = "seal" /\ outcome.result.ok)
          => LET pkg == outcome.result.value
                 key == deriveKey(outcome.password, ToUint8Array(pkg.salt))
             IN  /\ DOMAIN pkg = {"id", "salt", "encryptedData", "keyHash", "createdAt"}
                 /\ \A column \in PackageColumns(pkg) :
                       /\ ~Contains(column, key)
                       /\ ~Contains(column, TextEncode(outcome.password))
    /\ (OpenedAsSealed /\ outcome.result.ok)
          => outcome.result.value = outcome.source.data

\* ------------------------------------------------------------------------
\* Identifiers: generateUlid on the timestamps and random blocks below
\* ------------------------------------------------------------------------

\* identifiers minted one after the other in a behaviour of SpecUlid
MaxMinted ==
    2

\* Date.now(): 0, 31, 32, 32^5, 2026-11-02T08:00:00Z, 32^10 - 1 and 32^10
Timestamps ==
    {Wide(0), Wide(31), Wide(32),
     [hi |-> 1, lo |-> 0],
     [hi |-> 53452, lo |-> 26100736],
     [hi |-> Limb - 1, lo |-> Limb - 1],
     [hi |-> Limb, lo |-> 0]}

ZeroBlock ==
    Repeat(0, UlidRandomLength)

WithByte(block, index, value) ==
    [block EXCEPT ![index] = value]

\* randomBytes(10): all zero, all 255, and blocks that differ from all zero
\* in one byte: the first, the eighth, the ninth or the tenth
RandomBlocks ==
    {ZeroBlock, Repeat(255, UlidRandomLength),
     WithByte(ZeroBlock, 1, 1), WithByte(ZeroBlock, 1, 32),
     WithByte(ZeroBlock, 8, 255), WithByte(ZeroBlock, 9, 1),
     WithByte(ZeroBlock, 10, 255)}

Minted ==
    IF outcome.op = "ulid" THEN outcome.minted ELSE <<>>

\* generateUlid() at a time and with a block of randomness
Mint ==
    /\ reply = <<>>
    /\ outcome = Idle \/ outcome.op = "ulid"
    /\ Len(Minted) < MaxMinted
    /\ \E timestamp \in Timestamps, randomness \in RandomBlocks :
          outcome' = [op     |-> "ulid",
                      minted |-> Append(Minted,
                                    [timestamp  |-> timestamp,
                                     randomness |-> randomness,
                                     id |-> UlidEncode(timestamp, randomness)])]
    /\ UNCHANGED <<now, rng, sealed, boxes>>
    /\ UNCHANGED api

NextUlid ==
    \/ Return
    \/ Mint

SpecUlid ==
    Init /\ [][NextUlid]_vars

\* the characters of '0123456789ABCDEFGHJKMNPQRSTVWXYZ'
UlidAlphabet ==
    {UlidChars[i] : i \in 1..Len(UlidChars)}

\* 'I', 'L', 'O', 'U'
AmbiguousLetters ==
    {73, 76, 79, 85}

IsUlid(id) ==
    /\ Len(id) = 26
    /\ \A i \in 1..Len(id) : id[i] \in UlidAlphabet /\ id[i] \notin AmbiguousLetters

\* C12: every identifier generateUlid returns, for every timestamp and
\* every block of 10 random bytes, has exactly 26 characters, each one of the
\* 32 characters of the alphabet, which has no I, L, O or U.
C12_UlidShape ==
    /\ Cardinality(UlidAlphabet) = 32
    /\ \A i \in 1..Len(Minted) : IsUlid(Minted[i].id)

\* an identifier minted now from ten bytes of 255
C12_Witness ==
    \E i \in 1..Len(Minted) :
        /\ Minted[i].timestamp = [hi |-> 53452, lo |-> 26100736]
        /\ Minted[i].randomness = Repeat(255, UlidRandomLength)
        /\ IsUlid(Minted[i].id)

\* C13: both identifiers of a stored survey have the shape generateUlid
\* gives: the response-scope id the client minted, and the analysis-scope id
\* the worker assigned at creation, are 26 characters of the alphabet
\* without I, L, O and U.
C13_AnalysisIdIsUlid ==
    \A row \in surveys :
        /\ IsUlid(row.id)
        /\ IsUlid(row.analysis_id)

\* C14: for one timestamp generateUlid is injective in its 10 random
\* bytes: two identifiers minted at the same timestamp from blocks that
\* differ in any byte are different.
C14_UlidInjective ==
    \A i, j \in 1..Len(Minted) :
        ( /\ Minted[i].timestamp = Minted[j].timestamp
          /\ Minted[i].randomness # Minted[j].randomness )
        => Minted[i].id # Minted[j].id

\* t1 < t2 on timestamps
WideLess(t1, t2) ==
    \/ t1.hi < t2.hi
    \/ t1.hi = t2.hi /\ t1.lo < t2.lo

\* a timestamp below 32^10, the largest the 10 characters hold
FitsTenCharacters(timestamp) ==
    timestamp.hi < Limb

\* a < b on strings, as JavaScript compares them
LexLess(a, b) ==
    \E k \in 1..Len(b) :
        /\ k - 1 <= Len(a)
        /\ SubSeq(a, 1, k - 1) = SubSeq(b, 1, k - 1)
        /\ IF k > Len(a) THEN TRUE ELSE a[k] < b[k]

\* C15: identifiers sort by creation time.  Of two identifiers minted at
\* timestamps t1 < t2 below 32^10, the one minted at t1 is the smaller
\* string, whatever the random bytes of the two.
C15_SortsByTime ==
    \A i, j \in 1..Len(Minted) :
        ( /\ WideLess(Minted[i].timestamp, Minted[j].timestamp)
          /\ FitsTenCharacters(Minted[j].timestamp) )
        => LexLess(Minted[i].id, Minted[j].id)

\* the earlier identifier has the larger random part, and the later one was minted first
C15_Witness ==
    /\ Len(Minted) = 2
    /\ Minted[2].timestamp = Wide(31)
    /\ Minted[1].timestamp = Wide(32)
    /\ Minted[2].randomness = Repeat(255, UlidRandomLength)
    /\ Minted[1].randomness = ZeroBlock
    /\ LexLess(Minted[2].id, Minted[1].id)

\* ------------------------------------------------------------------------
\* Fingerprints: createKeyHash(deriveKey(password, salt)), called again and
\* again
\* ------------------------------------------------------------------------

\* fingerprints computed one after the other in a behaviour of SpecFingerprint
MaxFingerprints ==
    3

\* "correct-horse-batterz": the last character differs
PasswordNear ==
    [PasswordGood EXCEPT ![Len(PasswordGood)] = 122]

\* 128 characters that differ from PasswordAtMax in the hundredth
PasswordLongNear ==
    [PasswordAtMax EXCEPT ![100] = 98]

FingerprintPasswords ==
    {PasswordGood, PasswordNear, PasswordOther, PasswordAtMax, PasswordLongNear}

\* randomBytes(16) of two draws, and the first with its last byte changed
FingerprintSalts ==
    {randomBytes(SaltLength, 0), randomBytes(SaltLength, 1),
     [randomBytes(SaltLength, 0) EXCEPT ![SaltLength] = (@ + 1) % 256]}

Fingerprints ==
    IF outcome.op = "hash" THEN outcome.calls ELSE <<>>

\* const key = await deriveKey(password, salt); await createKeyHash(key)
Fingerprint ==
    /\ reply = <<>>
    /\ outcome = Idle \/ outcome.op = "hash"
    /\ Len(Fingerprints) < MaxFingerprints
    /\ \E password \in FingerprintPasswords, salt \in FingerprintSalts :
          LET key == deriveKey(password, salt)
          IN  outcome' = [op    |-> "hash",
                          calls |-> Append(Fingerprints,
                                       [password |-> password,
                                        salt     |-> salt,
                                        key      |-> key,
                                        keyHash  |-> createKeyHash(key)])]
    /\ UNCHANGED <<now, rng, sealed, boxes>>
    /\ UNCHANGED api

NextFingerprint ==
    \/ Return
    \/ Fingerprint

SpecFingerprint ==
    Init /\ [][NextFingerprint]_vars

Plaintext(data) ==
    TextEncode(JSONstringify(data))

\* C17: every package createEncryptedSurvey returns has a salt of 16 bytes
\* and an encryptedData of 24 + the length of the serialized plaintext + 16
\* bytes, the first 24 of which are the nonce drawn from randomBytes for it,
\* and a key hash that is not null.
C17_PackageShape ==
    \A s \in sealed :
        /\ Len(s.pkg.salt) = 16
        /\ Len(s.pkg.encryptedData) = 24 + Len(Plaintext(s.data)) + 16
        /\ \E counter \in 0..(rng - 1) :
              /\ s.pkg.salt = randomBytes(16, counter)
              /\ SliceTo(s.pkg.encryptedData, 24) = randomBytes(24, counter + 1)
        /\ s.pkg.keyHash # Null
        /\ Len(s.pkg.keyHash) = 64

\* a survey of 65 characters sealed into 105 bytes
C17_Witness ==
    \E s \in sealed :
        /\ s.data = SurveyT
        /\ s.password = PasswordGood
        /\ Len(Plaintext(s.data)) = 65
        /\ Len(s.pkg.encryptedData) = 105

WeakPasswordErrors ==
    {"Password must be at least 8 characters long",
     "Password must be less than 128 characters"}

\* a createEncryptedSurvey call has just ended
Sealing ==
    /\ outcome = Idle
    /\ outcome'.op = "seal"

\* C18: createEncryptedSurvey validates the password first.  A call with a
\* password of fewer than 8 or more than 128 characters throws the error
\* validatePassword gives and returns no package, and it has drawn no salt,
\* no nonce and no identifier: the random source is where it was.
C18_ValidatesFirst ==
    [][ ( /\ Sealing
          /\ \/ Len(outcome'.password) < 8
             \/ Len(outcome'.password) > 128 )
        => /\ ~outcome'.result.ok
           /\ outcome'.result.error \in WeakPasswordErrors
           /\ DOMAIN outcome'.result = {"ok", "error"}
           /\ rng' = rng
           /\ sealed' = sealed
           /\ boxes' = boxes ]_vars

\* a password of 129 characters was refused and nothing was drawn
C18_Witness ==
    /\ outcome.op = "seal"
    /\ outcome.password = PasswordOverMax
    /\ ~outcome.result.ok
    /\ outcome.result.error = "Password must be less than 128 characters"
    /\ rng = 0
    /\ sealed = {}

\* ------------------------------------------------------------------------
\* The database operations, called one at a time on small rows: two survey
\* ids, two analysis ids, two versions of a survey's content (ciphertext,
\* salt and key hash), two response ids; the clock advances between calls.
\* ------------------------------------------------------------------------

\* "A", "B"
StoreIds ==
    {<<65>>, <<66>>}

\* "X", "Y"
StoreAnalysisIds ==
    {<<88>>, <<89>>}

StoreVersions ==
    {1, 2}

\* "R", "S"
StoreResponseIds ==
    {<<82>>, <<83>>}

\* "h1", "h2"
StoreKeyHash(version) ==
    <<104, 48 + version>>

\* the surveyData handleCreateSurvey hands to createSurvey
StoreSurveyData(id, analysisId, version, time) ==
    [id             |-> id,
     analysisId     |-> analysisId,
     title          |-> Null,
     description    |-> Null,
     questions      |-> <<version, version>>,
     salt           |-> <<10 + version>>,
     createdAt      |-> time,
     expiresAt      |-> Null,
     maxResponses   |-> Null,
     creatorKeyHash |-> StoreKeyHash(version)]

\* maxAge of a sweep, in ticks of the clock
MaxAges ==
    {0, 1}

\* one database operation runs from its first statement to its last
Call(op, args, result, after) ==
    /\ reply = <<>>
    /\ outcome' = [op |-> op, args |-> args, result |-> result]
    /\ surveys' = after.surveys
    /\ responses' = after.responses
    /\ UNCHANGED <<now, rng, sealed, boxes, reply, links, known, calls, foreignKeys>>

CallCreateSurvey ==
    /\ outcome = Idle
    /\ \E id \in StoreIds, analysisId \in StoreAnalysisIds, version \in StoreVersions :
            LET done == createSurvey(surveys, responses,
                                     StoreSurveyData(id, analysisId, version, now))
            IN  Call("createSurvey", <<id, analysisId, version>>, done.result, done)

CallSubmitResponse ==
    /\ outcome = Idle
    /\ \E id \in StoreResponseIds, surveyId \in StoreIds :
            LET done == submitResponse(surveys, responses,
                                       [id |-> id, surveyId |-> surveyId,
                                        answers |-> <<3>>, submittedAt |-> now], now)
            IN  Call("submitResponse", <<id, surveyId>>, done.result, done)

\* the four creator-only reads
CallRead ==
    /\ outcome = Idle
    /\ \E version \in StoreVersions :
            \/ \E id \in StoreIds :
                  \/ Call("getSurveyResponses", <<id, StoreKeyHash(version)>>,
                          getSurveyResponses(surveys, responses, id, StoreKeyHash(version)),
                          Outcome(Null, surveys, responses))
                  \/ Call("getSurveyStats", <<id, StoreKeyHash(version)>>,
                          getSurveyStats(surveys, responses, id, StoreKeyHash(version), now),
                          Outcome(Null, surveys, responses))
            \/ \E analysisId \in StoreAnalysisIds :
                  \/ Call("getSurveyResponsesByAnalysisId", <<analysisId, StoreKeyHash(version)>>,
                          getSurveyResponsesByAnalysisId(surveys, responses, analysisId,
                                                         StoreKeyHash(version)),
                          Outcome(Null, surveys, responses))
                  \/ Call("getSurveyStatsByAnalysisId", <<analysisId, StoreKeyHash(version)>>,
                          getSurveyStatsByAnalysisId(surveys, responses, analysisId,
                                                     StoreKeyHash(version), now),
                          Outcome(Null, surveys, responses))

CallDeleteSurveyByAnalysisId ==
    /\ outcome = Idle
    /\ \E analysisId \in StoreAnalysisIds, version \in StoreVersions :
            LET done == deleteSurveyByAnalysisId(surveys, responses, analysisId,
                                                 StoreKeyHash(version))
            IN  Call("deleteSurveyByAnalysisId", <<analysisId, StoreKeyHash(version)>>,
                     done.result, done)

CallDeleteSurvey ==
    /\ outcome = Idle
    /\ \E id \in StoreIds, version \in StoreVersions :
            LET done == deleteSurvey(surveys, responses, id, StoreKeyHash(version))
            IN  Call("deleteSurvey", <<id, StoreKeyHash(version)>>, done.result, done)

CallCleanupExpiredSurveys ==
    /\ outcome = Idle
    /\ \E maxAge \in MaxAges :
            LET done == cleanupExpiredSurveys(surveys, responses, maxAge, now)
            IN  Call("cleanupExpiredSurveys", <<maxAge>>, done.result, done)

NextStore ==
    \/ Return
    \/ Tick
    \/ CallCreateSurvey
    \/ CallSubmitResponse
    \/ CallRead
    \/ CallDeleteSurveyByAnalysisId
    \/ CallDeleteSurvey
    \/ CallCleanupExpiredSurveys

SpecStore ==
    Init /\ [][NextStore]_vars

\* C19: a stored survey is immutable.  From one state to the next, whatever
\* operation ran (a submission, a read, a second creation with its id, the
\* deletion of another survey, a sweep), a survey id that is stored before
\* and after has the same analysis id, salt, ciphertext and creator key
\* hash; between its creation and its deletion a row is never rewritten.
C19_SurveyImmutable ==
    [][ \A row \in surveys : \A after \in surveys' :
            after.id = row.id
            => /\ after.analysis_id = row.analysis_id
               /\ after.salt = row.salt
               /\ after.questions = row.questions
               /\ after.creator_key_hash = row.creator_key_hash
               /\ after.created_at = row.created_at ]_vars

\* a second createSurvey with the id of a stored survey that has a response,
\* with other content and at a later time, failed
C19_Witness ==
    /\ outcome.op = "createSurvey"
    /\ ~outcome.result.ok
    /\ \E row \in surveys :
          /\ row.id = outcome.args[1]
          /\ row.creator_key_hash # StoreKeyHash(outcome.args[3])
          /\ row.created_at < now
          /\ \E r \in responses : r.survey_id = row.id

\* the ids of the surveys a delete call that has just ended was aimed at
DeleteTargets ==
    IF outcome'.op = "deleteSurvey"
    THEN {outcome'.args[1]}
    ELSE IF outcome'.op = "deleteSurveyByAnalysisId"
    THEN {row.id : row \in {r \in surveys : r.analysis_id = outcome'.args[1]}}
    ELSE {}

\* C20: deletion cascades.  When deleteSurveyByAnalysisId or deleteSurvey
\* returns successfully, having run alone, the survey was stored before the
\* call and is gone after it, no response with that survey as parent is
\* left, and deletedResponses is the number of responses the survey had
\* before the call.
C20_DeletionCascades ==
    [][ ( /\ outcome = Idle
          /\ outcome'.op \in {"deleteSurvey", "deleteSurveyByAnalysisId"}
          /\ outcome'.result.ok )
        => /\ Cardinality(DeleteTargets) = 1
           /\ \A id \in DeleteTargets :
                 /\ \E row \in surveys : row.id = id
                 /\ \A row \in surveys' : row.id # id
                 /\ \A r \in responses' : r.survey_id # id
                 /\ outcome'.result.value.deletedSurvey
                 /\ outcome'.result.value.deletedResponses
                       = Cardinality({r \in responses : r.survey_id = id}) ]_vars

\* a survey with two responses was deleted by its analysis id while another survey stays
C20_Witness ==
    /\ outcome.op = "deleteSurveyByAnalysisId"
    /\ outcome.result.ok
    /\ outcome.result.value.deletedResponses = 2
    /\ responses = {}
    /\ surveys # {}

TickDays ==
    31

\* the default maxAge of cleanupExpiredSurveys, 30 * 24 * 60 * 60 * 1000 ms, in days
DefaultMaxAgeDays ==
    30

\* the stored surveys older than the retention threshold
OldSurveys ==
    {row \in surveys : (now - row.created_at) * TickDays > DefaultMaxAgeDays}

NextRetention ==
    \/ Next
    \/ Tick

SpecRetention ==
    /\ Init
    /\ [][NextRetention]_vars
    /\ WF_vars(Tick)
    /\ WF_vars(Deliver)
    /\ WF_vars(Return)
    /\ WF_vars(Preflight)

\* C22: surveys are deleted automatically after 30 days.  Whenever a stored
\* survey is older than 30 days, a state follows in which no stored survey
\* is older than 30 days, without any client having to ask for it.
C22_AutoDeleted ==
    (OldSurveys # {}) ~> (OldSurveys = {})

\* ------------------------------------------------------------------------
\* The database operations statement by statement.  Every db.prepare(...)
\* .run(), .first() or .all() is awaited on its own: no operation uses a
\* batch or a transaction, so the statements of operations that run at the
\* same time interleave.  There is one survey id, with or without a
\* response limit; the database enforces foreign keys or does not.
\* ------------------------------------------------------------------------

\* "A"
StepsId ==
    <<65>>

\* "X"
StepsAnalysisId ==
    <<88>>

\* maxResponses of a survey: none, or one response
StepsLimits ==
    {Null, <<1>>}

StepsSurveyData(maxResponses, time) ==
    [StoreSurveyData(StepsId, StepsAnalysisId, 1, time)
        EXCEPT !.maxResponses = maxResponses]

\* the parent of a new response is never looked up
ParentMissing_unchecked(parents, surveyId) ==
    FALSE

\* FOREIGN KEY (survey_id) REFERENCES surveys(id): no row of surveys has
\* the id a new response names
ParentMissing(parents, surveyId) ==
    \A row \in parents : row.id # surveyId

InitSteps ==
    /\ InitProgram
    /\ foreignKeys \in BOOLEAN

\* the caller moves to its next statement; nothing has returned
Goto(c, pc, survey, changes) ==
    /\ calls' = [calls EXCEPT ![c] = [@ EXCEPT !.pc = pc, !.survey = survey,
                                               !.changes = changes]]
    /\ outcome' = Idle

\* the operation returns or throws: outcome is what it gave back
Finish(c, result) ==
    /\ calls' = [calls EXCEPT ![c] = NoCall]
    /\ outcome' = [op |-> calls[c].op, args |-> calls[c].args, result |-> result]

\* a caller in no operation enters one, at its first statement
Begin(c, op, pc, args) ==
    /\ calls' = [calls EXCEPT ![c] = [op |-> op, pc |-> pc, args |-> args,
                                      survey |-> {}, changes |-> 0,
                                      rows |-> <<>>]]
    /\ outcome' = Idle
    /\ UNCHANGED <<now, rng, sealed, boxes, surveys, responses,
                   reply, links, known, foreignKeys>>

\* what a statement leaves alone besides the tables, calls and outcome
StepFrame ==
    UNCHANGED <<now, rng, sealed, boxes, reply, links, known, foreignKeys>>

\* createSurvey is a single INSERT
StepCreateSurvey ==
    \E c \in Callers, maxResponses \in StepsLimits :
        LET done == createSurvey(surveys, responses, StepsSurveyData(maxResponses, now))
        IN  /\ calls[c] = NoCall
            /\ surveys' = done.surveys
            /\ outcome' = [op |-> "createSurvey", args |-> <<StepsId>>,
                           result |-> done.result]
            /\ UNCHANGED <<responses, calls>>
            /\ StepFrame

BeginSubmitResponse ==
    \E c \in Callers, id \in StoreResponseIds :
        /\ calls[c] = NoCall
        /\ Begin(c, "submitResponse", "getSurvey", <<id, StepsId>>)

\* submitResponse: the SELECT of getSurvey with the checks of
\* canAcceptResponses, the COUNT of getResponseCount, the INSERT
StepSubmitResponse ==
    \E c \in Callers :
        /\ calls[c].op = "submitResponse"
        /\ StepFrame
        /\ \/ /\ calls[c].pc = "getSurvey"
              /\ UNCHANGED <<surveys, responses>>
              /\ LET found == getSurvey(surveys, calls[c].args[2])
                 IN  IF found = {}
                     THEN Finish(c, Throw("Survey not found"))
                     ELSE LET survey == CHOOSE x \in found : TRUE
                          IN  IF Truthy(survey.expiresAt) /\ now > survey.expiresAt[1]
                              THEN Finish(c, Throw("Survey has expired"))
                              ELSE Goto(c, IF Truthy(survey.maxResponses)
                                           THEN "getResponseCount" ELSE "insert",
                                        found, 0)
           \/ /\ calls[c].pc = "getResponseCount"
              /\ UNCHANGED <<surveys, responses>>
              /\ LET survey == CHOOSE x \in calls[c].survey : TRUE
                 IN  IF getResponseCount(responses, calls[c].args[2])
                            >= survey.maxResponses[1]
                     THEN Finish(c, Throw("Survey has reached maximum responses"))
                     ELSE Goto(c, "insert", calls[c].survey, 0)
           \/ /\ calls[c].pc = "insert"
              /\ UNCHANGED surveys
              /\ IF \E row \in responses : row.id = calls[c].args[1]
                 THEN /\ Finish(c, Throw("D1_ERROR: UNIQUE constraint failed: responses.id"))
                      /\ UNCHANGED responses
                 ELSE IF foreignKeys /\ ParentMissing(surveys, calls[c].args[2])
                 THEN /\ Finish(c, Throw("D1_ERROR: FOREIGN KEY constraint failed"))
                      /\ UNCHANGED responses
                 ELSE /\ Finish(c, Ok([id |-> calls[c].args[1], success |-> TRUE]))
                      /\ responses' = responses \cup
                            {[id           |-> calls[c].args[1],
                              survey_id    |-> calls[c].args[2],
                              answers      |-> ToUint8Array(<<3>>),
                              submitted_at |-> now]}

BeginGetSurveyResponsesByAnalysisId ==
    \E c \in Callers, version \in StoreVersions :
        /\ calls[c] = NoCall
        /\ Begin(c, "getSurveyResponsesByAnalysisId", "getSurveyByAnalysisId",
                 <<StepsAnalysisId, StoreKeyHash(version)>>)

\* getSurveyResponsesByAnalysisId: the SELECT of the survey, the SELECT of
\* its responses
StepGetSurveyResponsesByAnalysisId ==
    \E c \in Callers :
        /\ calls[c].op = "getSurveyResponsesByAnalysisId"
        /\ StepFrame
        /\ UNCHANGED <<surveys, responses>>
        /\ \/ /\ calls[c].pc = "getSurveyByAnalysisId"
              /\ LET found == getSurveyByAnalysisId(surveys, calls[c].args[1])
                 IN  IF found = {}
                     THEN Finish(c, Throw("Survey not found"))
                     ELSE IF (CHOOSE x \in found : TRUE).creatorKeyHash # calls[c].args[2]
                     THEN Finish(c, Throw("Unauthorized - incorrect creator key"))
                     ELSE Goto(c, "select", found, 0)
           \/ /\ calls[c].pc = "select"
              /\ LET survey == CHOOSE x \in calls[c].survey : TRUE
                 IN  Finish(c, Ok(MapResponses(OrderBySubmittedAt(
                                {r \in responses : r.survey_id = survey.id}, TRUE))))

BeginDeleteSurveyByAnalysisId ==
    \E c \in Callers, version \in StoreVersions :
        /\ calls[c] = NoCall
        /\ Begin(c, "deleteSurveyByAnalysisId", "select",
                 <<StepsAnalysisId, StoreKeyHash(version)>>)

BeginDeleteSurvey ==
    \E c \in Callers, version \in StoreVersions :
        /\ calls[c] = NoCall
        /\ Begin(c, "deleteSurvey", "select", <<StepsId, StoreKeyHash(version)>>)

\* deleteSurveyByAnalysisId and deleteSurvey: the SELECT of the survey, the
\* DELETE of its responses, the DELETE of the survey
StepDelete ==
    \E c \in Callers :
        /\ calls[c].op \in {"deleteSurveyByAnalysisId", "deleteSurvey"}
        /\ StepFrame
        /\ \/ /\ calls[c].pc = "select"
              /\ UNCHANGED <<surveys, responses>>
              /\ LET found == IF calls[c].op = "deleteSurvey"
                              THEN getSurvey(surveys, calls[c].args[1])
                              ELSE getSurveyByAnalysisId(surveys, calls[c].args[1])
                 IN  IF found = {}
                     THEN Finish(c, Throw("Survey not found"))
                     ELSE IF (CHOOSE x \in found : TRUE).creatorKeyHash # calls[c].args[2]
                     THEN Finish(c, Throw("Unauthorized - only survey creator can delete"))
                     ELSE Goto(c, "deleteResponses", found, 0)
           \/ /\ calls[c].pc = "deleteResponses"
              /\ LET survey == CHOOSE x \in calls[c].survey : TRUE
                     mine   == {r \in responses : r.survey_id = survey.id}
                 IN  /\ responses' = responses \ mine
                     /\ Goto(c, "deleteSurvey", calls[c].survey, Cardinality(mine))
              /\ UNCHANGED surveys
           \/ /\ calls[c].pc = "deleteSurvey"
              /\ UNCHANGED responses
              /\ LET survey == CHOOSE x \in calls[c].survey : TRUE
                     rows   == {row \in surveys : row.id = survey.id}
                 IN  IF foreignKeys /\ rows # {}
                        /\ \E r \in responses : r.survey_id = survey.id
                     THEN /\ Finish(c, Throw("D1_ERROR: FOREIGN KEY constraint failed"))
                          /\ UNCHANGED surveys
                     ELSE /\ surveys' = surveys \ rows
                          /\ IF rows = {}
                             THEN Finish(c, Throw("Survey not found or already deleted"))
                             ELSE Finish(c, Ok([deletedSurvey    |-> TRUE,
                                                deletedResponses |-> calls[c].changes]))

BeginCleanupExpiredSurveys ==
    \E c \in Callers, maxAge \in MaxAges :
        /\ calls[c] = NoCall
        /\ Begin(c, "cleanupExpiredSurveys", "deleteResponses", <<now - maxAge>>)

\* cleanupExpiredSurveys: the DELETE of the responses of the old surveys,
\* the DELETE of the old surveys
StepCleanupExpiredSurveys ==
    \E c \in Callers :
        /\ calls[c].op = "cleanupExpiredSurveys"
        /\ StepFrame
        /\ LET cutoffTime == calls[c].args[1]
               expired    == {row \in surveys : row.created_at < cutoffTime}
           IN  \/ /\ calls[c].pc = "deleteResponses"
                  /\ responses' = {r \in responses :
                                      \A row \in expired : row.id # r.survey_id}
                  /\ Goto(c, "deleteSurveys", {}, 0)
                  /\ UNCHANGED surveys
               \/ /\ calls[c].pc = "deleteSurveys"
                  /\ UNCHANGED responses
                  /\ IF foreignKeys
                        /\ \E r \in responses : \E row \in expired : row.id = r.survey_id
                     THEN /\ Finish(c, Throw("D1_ERROR: FOREIGN KEY constraint failed"))
                          /\ UNCHANGED surveys
                     ELSE /\ surveys' = surveys \ expired
                          /\ Finish(c, Ok([deletedCount |-> Cardinality(expired)]))

\* the clock advances, whatever is in progress
TickSteps ==
    /\ now < MaxTime
    /\ now' = now + 1
    /\ outcome' = Idle
    /\ UNCHANGED <<rng, sealed, boxes>>
    /\ UNCHANGED api

NextSteps ==
    \/ TickSteps
    \/ StepCreateSurvey
    \/ BeginSubmitResponse
    \/ StepSubmitResponse
    \/ BeginGetSurveyResponsesByAnalysisId
    \/ StepGetSurveyResponsesByAnalysisId
    \/ BeginDeleteSurveyByAnalysisId
    \/ BeginDeleteSurvey
    \/ StepDelete
    \/ BeginCleanupExpiredSurveys
    \/ StepCleanupExpiredSurveys

SpecSteps ==
    InitSteps /\ [][NextSteps]_vars

\* C23: while a survey row exists, the number of its responses never
\* decreases.  From one state to the next, under any interleaving of the
\* statements of submit, list, delete and sweep, a survey id stored before
\* and after the step has at least as many responses after as before.
C23_CountMonotonic ==
    [][ \A row \in surveys :
            (\E after \in surveys' : after.id = row.id)
            => getResponseCount(responses', row.id)
                  >= getResponseCount(responses, row.id) ]_vars

\* the id of the package a creation request carries, if it carries one
CreationId(request) ==
    IF request.body = Null
    THEN Null
    ELSE IF request.body[1].encryptedSurvey = Null
    THEN Null
    ELSE request.body[1].encryptedSurvey[1].id

\* C24: ids are unique and a repeated creation creates nothing.  After every
\* step no two stored surveys share an id and no two share an analysis id;
\* and a creation request that carries the id of a stored survey is answered
\* with an error and leaves table surveys, the stored survey and its
\* analysis id included, as it was.
C24_IdsUnique ==
    [][ /\ \A a \in surveys' : \A b \in surveys' :
              (a.id = b.id \/ a.analysis_id = b.analysis_id) => a = b
        /\ ( /\ reply = <<>>
             /\ reply' # <<>>
             /\ IsCreation(reply'[1].request)
             /\ \E row \in surveys : row.id = CreationId(reply'[1].request) )
           => /\ reply'[1].response.status # 200
              /\ surveys' = surveys ]_vars

\* with two surveys stored, the creation request of one of them was sent
\* again and was refused
C24_Witness ==
    /\ reply # <<>>
    /\ IsCreation(reply[1].request)
    /\ reply[1].response.status = 500
    /\ Cardinality(surveys) = 2
    /\ \E row \in surveys : row.id = CreationId(reply[1].request)

\* ------------------------------------------------------------------------
\* Submissions.  Surveys with and without an expiry time and a response
\* limit are stored; respondents post responses to them through the worker
\* while the clock advances.
\* ------------------------------------------------------------------------

\* expiresAt and maxResponses of a stored survey
SubmitLimits ==
    {[expiresAt |-> e, maxResponses |-> m] : e \in {Null, <<1>>}, m \in {Null, <<1>>}}

\* encryptedAnswers of a submission: the bytes of a ciphertext
Ciphertexts ==
    {<<7, 200>>, <<9>>}

CallCreateLimited ==
    /\ outcome = Idle
    /\ \E id \in StoreIds, analysisId \in StoreAnalysisIds, limits \in SubmitLimits :
            LET surveyData == [StoreSurveyData(id, analysisId, 1, now)
                                  EXCEPT !.expiresAt = limits.expiresAt,
                                         !.maxResponses = limits.maxResponses]
                done == createSurvey(surveys, responses, surveyData)
            IN  Call("createSurvey", <<id, analysisId, limits>>, done.result, done)

\* POST /api/survey/:id/response, with no key hash
PostResponse ==
    /\ reply = <<>>
    /\ \E surveyId \in StoreIds, id \in StoreResponseIds, answers \in Ciphertexts :
            Send("respondent",
                 Request("POST", "survey", surveyId, "response", Null,
                         Body(Null, <<[id |-> id, encryptedAnswers |-> answers]>>)),
                 Null)

NextSubmit ==
    \/ Return
    \/ Tick
    \/ CallCreateLimited
    \/ PostResponse
    \/ Deliver

SpecSubmit ==
    Init /\ [][NextSubmit]_vars

\* the stored surveys with this id that are not expired and below their limit
Accepting(surveyId) ==
    {row \in surveys :
        /\ row.id = surveyId
        /\ row.expires_at = Null \/ now <= row.expires_at[1]
        /\ row.max_responses = Null
              \/ Cardinality({r \in responses : r.survey_id = surveyId})
                    < row.max_responses[1]}

\* C25: any holder of the response-scope id can submit.  A submission
\* request that carries no key hash, with a response id not yet stored, to
\* a survey that exists, is not expired and is below its limit, is answered
\* with 200; table responses then has exactly one row more, with the id of
\* the request, the survey of the request path as parent, the submitted
\* bytes as answers and the time of the request; table surveys is as it was.
C25_SubmitWithoutPassword ==
    [][ ( /\ reply = <<>>
          /\ reply' # <<>>
          /\ reply'[1].request.method = "POST"
          /\ reply'[1].request.tail = "response"
          /\ reply'[1].request.keyHash = Null
          /\ Accepting(reply'[1].request.id) # {}
          /\ \A r \in responses :
                r.id # reply'[1].request.body[1].encryptedResponse[1].id )
        => LET request == reply'[1].request
               sent    == request.body[1].encryptedResponse[1]
               row     == [id           |-> sent.id,
                           survey_id    |-> request.id,
                           answers      |-> sent.encryptedAnswers,
                           submitted_at |-> now]
           IN  /\ reply'[1].response.status = 200
               /\ reply'[1].response.body.data.id = sent.id
               /\ row \notin responses
               /\ responses' = responses \cup {row}
               /\ surveys' = surveys ]_vars

\* a response was accepted for a survey that has an expiry time and a
\* limit, while another survey is stored and holds a response already
C25_Witness ==
    /\ reply # <<>>
    /\ reply[1].request.tail = "response"
    /\ reply[1].response.status = 200
    /\ \E row \in surveys :
          /\ row.id = reply[1].request.id
          /\ row.expires_at # Null
          /\ row.max_responses # Null
    /\ \E r \in responses : r.survey_id # reply[1].request.id

\* ------------------------------------------------------------------------
\* Key derivation on passwords and salts of any length.  deriveKey has no
\* check and no throw of its own: it hands the password and the salt to
\* argon2.hash, which takes a password of any length, the empty one
\* included, and any salt of 8 bytes or more.
\* ------------------------------------------------------------------------

DerivePasswords ==
    {PasswordEmpty, PasswordShort, PasswordGood, PasswordOther}

\* salts of 8, 15, 16, 17 and 24 bytes
DeriveSalts ==
    {randomBytes(n, counter) : n \in {8, 15, SaltLength, 17, 24}, counter \in 0..2}

\* the package createEncryptedSurvey returns for PasswordGood, with another salt
Resalted(salt) ==
    [createEncryptedSurvey(SurveyT, PasswordGood, 0, 1).value
        EXCEPT !.salt = ArrayFrom(salt)]

\* a package sealed as createEncryptedSurvey seals it, by a client that
\* draws a salt of another length
SealedWithSalt(password, salt) ==
    LET key == deriveKey(password, salt)
    IN  [id            |-> generateUlid(1, 2),
         salt          |-> ArrayFrom(salt),
         encryptedData |-> ArrayFrom(encryptData(SurveyT, key, 1)),
         keyHash       |-> createKeyHash(key),
         createdAt     |-> 1]

\* deriveKey(password, salt)
Derive ==
    \E password \in DerivePasswords, salt \in DeriveSalts :
        /\ outcome = Idle
        /\ outcome' = [op |-> "deriveKey", password |-> password, salt |-> salt,
                       result |-> Ok(deriveKey(password, salt))]
        /\ UNCHANGED <<now, rng, sealed, boxes>>
        /\ UNCHANGED api

\* decryptSurvey(package, password) on a package whose salt has any length
OpenSalted ==
    \E password \in DerivePasswords, salt \in DeriveSalts :
        \E pkg \in {Resalted(salt), SealedWithSalt(PasswordGood, salt)} :
            /\ outcome = Idle
            /\ outcome' = [op |-> "decryptSurvey", password |-> password,
                           salt |-> salt, result |-> decryptSurvey(pkg, password)]
            /\ UNCHANGED <<now, rng, sealed, boxes>>
            /\ UNCHANGED api

NextDerive ==
    \/ Return
    \/ Derive
    \/ OpenSalted

SpecDerive ==
    Init /\ [][NextDerive]_vars

\* the messages of the errors the codec throws for other reasons
OtherErrors ==
    {"Invalid password", "Invalid encrypted data format",
     "Decryption failed - incorrect password or corrupted data"}

\* C26: deriveKey fails on an empty password and on a salt that is not 16
\* bytes long.  A deriveKey call with an empty password or with a salt of
\* another length than 16 returns no key, and a decryptSurvey call on a
\* package with such a salt fails, with an error that is none of the
\* codec's other errors.
C26_DerivationError ==
    /\ ( /\ outcome.op = "deriveKey"
         /\ outcome.password = PasswordEmpty \/ Len(outcome.salt) # SaltLength )
       => ~outcome.result.ok
    /\ ( /\ outcome.op = "decryptSurvey"
         /\ Len(outcome.salt) # SaltLength )
       => /\ ~outcome.result.ok
          /\ outcome.result.error \notin OtherErrors

\* ------------------------------------------------------------------------
\* decryptData on inputs of every length: the outputs of encryptData and
\* all their prefixes, under the key that sealed them and under another.
\* ------------------------------------------------------------------------

DecryptKeys ==
    {deriveKey(PasswordGood, randomBytes(SaltLength, 0)),
     deriveKey(PasswordOther, randomBytes(SaltLength, 0))}

\* what encryptData returns for two values, and every prefix of it
DecryptInputs ==
    UNION {{SliceTo(encryptData(data, deriveKey(PasswordGood, randomBytes(SaltLength, 0)), 1), n) :
                n \in 0..Len(encryptData(data, deriveKey(PasswordGood, randomBytes(SaltLength, 0)), 1))} :
            data \in {AnswersYes, JNull}}

\* decryptData(encryptedData, key)
Decrypt ==
    \E encryptedData \in DecryptInputs, key \in DecryptKeys :
        /\ outcome = Idle
        /\ outcome' = [op |-> "decryptData", encryptedData |-> encryptedData,
                       key |-> key, result |-> decryptData(encryptedData, key)]
        /\ UNCHANGED <<now, rng, sealed, boxes>>
        /\ UNCHANGED api

NextDecrypt ==
    \/ Return
    \/ Decrypt

SpecDecrypt ==
    Init /\ [][NextDecrypt]_vars

\* C27: decryptData refuses an input shorter than the nonce before it uses
\* the cipher.  A decryptData call on fewer than 24 bytes throws 'Invalid
\* encrypted data format'; a call on 24 bytes or more never throws that
\* error: its result is the cipher's, the decryption error when
\* secretbox.open returns null on the bytes after the nonce and the parsed
\* plaintext otherwise.
C27_ShortInputRejected ==
    outcome.op = "decryptData"
    => LET input  == outcome.encryptedData
           opened == secretboxOpen(SliceFrom(input, NonceLength),
                                   SliceTo(input, NonceLength), outcome.key)
       IN  IF Len(input) < 24
           THEN outcome.result = Throw("Invalid encrypted data format")
           ELSE IF opened.ok
           THEN outcome.result = JSONparse(TextDecode(opened.value))
           ELSE outcome.result
                   = Throw("Decryption failed - incorrect password or corrupted data")

\* an input of 23 bytes, one short of the nonce, was refused as malformed
C27_Witness ==
    /\ outcome.op = "decryptData"
    /\ Len(outcome.encryptedData) = 23
    /\ outcome.result = Throw("Invalid encrypted data format")

\* C28: a package whose plaintext is no survey is refused.  Opening, with
\* the password it was sealed with, a package that holds a JSON value which
\* is not a survey (a number, null, a string) fails, with an error other
\* than the wrong-password error; the value is not returned.
C28_SchemaChecked ==
    ( /\ OpenedAsSealed
      /\ outcome.password = outcome.source.password
      /\ outcome.source.data \in NotSurveys )
    => /\ ~outcome.result.ok
       /\ outcome.result.error # "Invalid password"

\* ------------------------------------------------------------------------
\* survey-parser.js: validateSurvey, on JavaScript values
\* ------------------------------------------------------------------------

\* the value of a missing property
JUndefined ==
    [kind |-> "undefined", val |-> 0]

\* "title", "description", "questions", "text", "type", "yes_no"
TitleKey ==
    <<116, 105, 116, 108, 101>>

DescriptionKey ==
    <<100, 101, 115, 99, 114, 105, 112, 116, 105, 111, 110>>

QuestionsKey ==
    <<113, 117, 101, 115, 116, 105, 111, 110, 115>>

TextKey ==
    <<116, 101, 120, 116>>

TypeKey ==
    <<116, 121, 112, 101>>

YesNo ==
    <<121, 101, 115, 95, 110, 111>>

\* value.name: the property of an object; undefined on anything else
Get(value, name) ==
    IF value.kind = "object" /\ \E i \in 1..Len(value.val) : value.val[i][1] = name
    THEN value.val[CHOOSE i \in 1..Len(value.val) : value.val[i][1] = name][2]
    ELSE JUndefined

\* reading a property of null or undefined is a TypeError
Nullish(value) ==
    value.kind \in {"null", "undefined"}

\* !value
Falsy(value) ==
    \/ Nullish(value)
    \/ value.kind = "string" /\ value.val = <<>>
    \/ value.kind = "number" /\ value.val = 0
    \/ value.kind = "boolean" /\ ~value.val

\* value.length: -1 stands for undefined, which is neither 0 nor above a limit
LengthOf(value) ==
    IF value.kind \in {"string", "array"} THEN Len(value.val) ELSE -1

IsSpace(c) ==
    c \in {9, 10, 13, 32}

RECURSIVE TrimStart(_)
TrimStart(string) ==
    IF string # <<>> /\ IsSpace(Head(string)) THEN TrimStart(Tail(string)) ELSE string

RECURSIVE TrimEnd(_)
TrimEnd(string) ==
    IF string # <<>> /\ IsSpace(string[Len(string)])
    THEN TrimEnd(SubSeq(string, 1, Len(string) - 1))
    ELSE string

\* string.trim()
Trim(string) ==
    TrimEnd(TrimStart(string))

MaxTitleLength ==
    200

MaxDescriptionLength ==
    1000

MaxQuestions ==
    50

MaxQuestionLength ==
    500

\* the errors the forEach callback pushes for one question
QuestionErrors(question, index) ==
    LET text == Get(question, TextKey)
        type == Get(question, TypeKey)
    IN  (IF Falsy(text) \/ Trim(text.val) = <<>>
         THEN << <<"Question ", index, " cannot be empty">> >>
         ELSE IF Len(text.val) > MaxQuestionLength
         THEN << <<"Question ", index, " must be less than 500 characters">> >>
         ELSE <<>>)
        \o (IF type.kind = "string" /\ type.val \in {YesNo, TextKey}
            THEN <<>>
            ELSE << <<"Question ", index, " has invalid type: ", type>> >>)

\* question.text.trim() on a text that is no string, or a question that is
\* null or undefined
QuestionThrows(question) ==
    \/ Nullish(question)
    \/ ~Falsy(Get(question, TextKey)) /\ Get(question, TextKey).kind # "string"

RECURSIVE AllQuestionErrors(_, _)
AllQuestionErrors(questions, index) ==
    IF index > Len(questions)
    THEN <<>>
    ELSE QuestionErrors(questions[index], index)
            \o AllQuestionErrors(questions, index + 1)

validateSurvey(survey) ==
    IF Nullish(survey)
    THEN Throw("TypeError: Cannot read properties of undefined (reading 'title')")
    ELSE LET title       == Get(survey, TitleKey)
             description == Get(survey, DescriptionKey)
             questions   == Get(survey, QuestionsKey)
         IN  IF ~Falsy(title) /\ title.kind # "string"
             THEN Throw("TypeError: survey.title.trim is not a function")
             ELSE IF Nullish(questions)
             THEN Throw("TypeError: Cannot read properties of undefined (reading 'forEach')")
             ELSE IF questions.kind # "array"
             THEN Throw("TypeError: survey.questions.forEach is not a function")
             ELSE IF \E i \in 1..Len(questions.val) : QuestionThrows(questions.val[i])
             THEN Throw("TypeError: Cannot read properties of undefined (reading 'text')")
             ELSE LET errors ==
                          (IF Falsy(title) \/ Trim(title.val) = <<>>
                           THEN << <<"Survey must have a title">> >>
                           ELSE IF Len(title.val) > MaxTitleLength
                           THEN << <<"Survey title must be less than 200 characters">> >>
                           ELSE <<>>)
                          \o (IF ~Falsy(description)
                                 /\ LengthOf(description) > MaxDescriptionLength
                              THEN << <<"Survey description must be less than 1000 characters">> >>
                              ELSE <<>>)
                          \o (IF Falsy(questions) \/ LengthOf(questions) = 0
                              THEN << <<"Survey must have at least one question">> >>
                              ELSE IF LengthOf(questions) > MaxQuestions
                              THEN << <<"Survey cannot have more than 50 questions">> >>
                              ELSE <<>>)
                          \o AllQuestionErrors(questions.val, 1)
                  IN  Ok([valid |-> errors = <<>>, errors |-> errors])

\* titles, descriptions and questions fields a survey value may have; Null
\* stands for the absence of the property
ValidateTitles ==
    {Null, <<JNull>>, <<JStr(<<>>)>>, <<JStr(<<32, 32>>)>>, <<JStr(<<84>>)>>,
     <<JStr(Repeat(84, MaxTitleLength))>>, <<JStr(Repeat(84, MaxTitleLength + 1))>>}

ValidateDescriptions ==
    {Null, <<JStr(Repeat(68, MaxDescriptionLength + 1))>>}

Question(text, type) ==
    JObj(<< <<TextKey, JStr(text)>>, <<TypeKey, JStr(type)>> >>)

ValidateQuestions ==
    {Null, <<JNull>>, <<JArr(<<>>)>>,
     <<JArr(<<Question(<<81, 63>>, TextKey)>>)>>,
     <<JArr(<<Question(<<81, 63>>, YesNo), Question(<<32>>, TextKey)>>)>>,
     <<JArr(<<Question(Repeat(81, MaxQuestionLength + 1), TitleKey)>>)>>,
     <<JArr([i \in 1..(MaxQuestions + 1) |-> Question(<<81>>, YesNo)])>>,
     <<JArr(<<Question(<<81, 63>>, TextKey), JNull>>)>>}

\* an object with the properties that are present
SurveyValue(title, description, questions) ==
    JObj((IF title = Null THEN <<>> ELSE << <<TitleKey, title[1]>> >>)
         \o (IF description = Null THEN <<>> ELSE << <<DescriptionKey, description[1]>> >>)
         \o (IF questions = Null THEN <<>> ELSE << <<QuestionsKey, questions[1]>> >>))

ValidateInputs ==
    {SurveyValue(title, description, questions) :
        title \in ValidateTitles, description \in ValidateDescriptions,
        questions \in ValidateQuestions}
    \cup {SurveyT, SurveyA}

\* validateSurvey(survey)
Validate ==
    \E survey \in ValidateInputs :
        /\ outcome = Idle
        /\ outcome' = [op |-> "validateSurvey", survey |-> survey,
                       result |-> validateSurvey(survey)]
        /\ UNCHANGED <<now, rng, sealed, boxes>>
        /\ UNCHANGED api

NextValidate ==
    \/ Return
    \/ Validate

SpecValidate ==
    Init /\ [][NextValidate]_vars

\* C29: validateSurvey is total.  Every validateSurvey call, also on a
\* survey whose questions are missing, null or empty, returns {valid,
\* errors} with valid exactly when errors is empty; it never throws.
C29_ValidateTotal ==
    outcome.op = "validateSurvey"
    => /\ outcome.result.ok
       /\ outcome.result.value.valid = (outcome.result.value.errors = <<>>)

\* ------------------------------------------------------------------------
\* The comparison of key hashes.  decryptSurvey (computedHash !== keyHash)
\* and every creator-only database operation (survey.creatorKeyHash !==
\* creatorKeyHash) compare two strings with the language's own operator.
\* The language fixes the result of !== and nothing about its duration: an
\* engine may stop at the first character that differs or read both
\* strings to the end.  The cost of a comparison is the number of
\* characters it reads.
\* ------------------------------------------------------------------------

Engines ==
    {"first difference", "whole string"}

\* the index of the first character in which two strings of one length
\* differ; their length if there is none
FirstDifference(a, b) ==
    IF \E i \in 1..Len(a) : a[i] # b[i]
    THEN CHOOSE i \in 1..Len(a) : a[i] # b[i] /\ \A j \in 1..(i - 1) : a[j] = b[j]
    ELSE Len(a)

\* a !== b
StrictNotEqual(a, b) ==
    a # b

\* the characters a !== b reads: none when the lengths differ
CompareCost(a, b, engine) ==
    IF Len(a) # Len(b)
    THEN 0
    ELSE IF engine = "first difference"
    THEN FirstDifference(a, b)
    ELSE Len(a)

\* the key hashes of two stored surveys
StoredHashes ==
    {createKeyHash(deriveKey(PasswordGood, randomBytes(SaltLength, 0))),
     createKeyHash(deriveKey(PasswordOther, randomBytes(SaltLength, 0)))}

\* what a client may supply against a stored hash: the hash itself, the
\* hash with one character replaced by "g", a shorter string
SuppliedHashes(stored) ==
    {stored, JunkHash}
    \cup {[stored EXCEPT ![i] = 103] : i \in {1, 2, 3, 32, 63, 64}}

\* two requests present a key hash against the same stored one
CompareKeyHash ==
    \E stored \in StoredHashes, engine \in Engines :
        \E first \in SuppliedHashes(stored), second \in SuppliedHashes(stored) :
            /\ outcome = Idle
            /\ outcome' = [op |-> "compare", stored |-> stored, engine |-> engine,
                           supplied |-> <<first, second>>,
                           mismatch |-> <<StrictNotEqual(stored, first),
                                          StrictNotEqual(stored, second)>>,
                           cost |-> <<CompareCost(stored, first, engine),
                                      CompareCost(stored, second, engine)>>]
            /\ UNCHANGED <<now, rng, sealed, boxes>>
            /\ UNCHANGED api

NextCompare ==
    \/ Return
    \/ CompareKeyHash

SpecCompare ==
    Init /\ [][NextCompare]_vars

\* C30: the comparison of key hashes is constant-time.  Two supplied
\* hashes of the stored hash's length that both differ from it cost the
\* same to compare with it, wherever their first differing character is.
C30_ConstantTime ==
    ( /\ outcome.op = "compare"
      /\ outcome.mismatch = <<TRUE, TRUE>>
      /\ Len(outcome.supplied[1]) = Len(outcome.stored)
      /\ Len(outcome.supplied[2]) = Len(outcome.stored) )
    => outcome.cost[1] = outcome.cost[2]

\* ------------------------------------------------------------------------
\* Malformed packages: the encryptedData of a sealed package is truncated
\* or altered, and the package is opened with any password.
\* ------------------------------------------------------------------------

\* the lengths a package's encryptedData is cut to: empty, shorter than a
\* nonce, exactly a nonce, a nonce and part of the tag, and one byte short
TruncatedLengths(encryptedData) ==
    {0, 5, NonceLength - 1, NonceLength, NonceLength + TagLength - 1,
     Len(encryptedData) - 1}

Malformed(encryptedData) ==
    {encryptedData, FlipBit(encryptedData, NonceLength + 1, 0)}
    \cup {SliceTo(encryptedData, n) : n \in TruncatedLengths(encryptedData)}

OpenMalformed ==
    \E s \in sealed, password \in Passwords :
        \E encryptedData \in Malformed(s.pkg.encryptedData) :
            LET pkg == [s.pkg EXCEPT !.encryptedData = encryptedData]
            IN  /\ outcome = Idle
                /\ outcome' = [op |-> "openMalformed", source |-> s, pkg |-> pkg,
                               password |-> password,
                               calls |-> decryptSurveyCalls(pkg, password),
                               result |-> decryptSurvey(pkg, password)]
                /\ UNCHANGED <<now, rng, sealed, boxes>>
                /\ UNCHANGED api

NextMalformed ==
    \/ Return
    \/ SealSurvey
    \/ OpenMalformed

SpecMalformed ==
    Init /\ [][NextMalformed]_vars

\* the key derived from the password does not hash to the package's keyHash
HashDiffers(pkg, password) ==
    createKeyHash(deriveKey(password, ToUint8Array(pkg.salt))) # pkg.keyHash

\* C31: in decryptSurvey the key hash check precedes decryption.  When the
\* recomputed key hash differs from the package's keyHash, decryptData is
\* not invoked and the call ends in 'Invalid password', whatever the
\* encryptedData is.
C31_VerifyBeforeDecrypt ==
    ( /\ outcome.op = "openMalformed"
      /\ HashDiffers(outcome.pkg, outcome.password) )
    => /\ outcome.result = Throw("Invalid password")
       /\ \A i \in 1..Len(outcome.calls) : outcome.calls[i] # "decryptData"

\* a package cut to less than a nonce was opened with a wrong password
C31_Witness ==
    /\ outcome.op = "openMalformed"
    /\ HashDiffers(outcome.pkg, outcome.password)
    /\ Len(outcome.pkg.encryptedData) < NonceLength
    /\ outcome.result = Throw("Invalid password")

\* ------------------------------------------------------------------------
\* validatePassword on passwords of every length up to a few past the
\* upper limit.
\* ------------------------------------------------------------------------

\* passwords of 0 to 131 characters, all "a" or all "0"
LengthPasswords ==
    {Repeat(c, n) : c \in {97, 48}, n \in 0..(MaxPasswordLength + 3)}

ValidatePassword ==
    \E password \in LengthPasswords :
        /\ outcome = Idle
        /\ outcome' = [op |-> "validatePassword", password |-> password,
                       result |-> validatePassword(password)]
        /\ UNCHANGED <<now, rng, sealed, boxes>>
        /\ UNCHANGED api

NextPassword ==
    \/ Return
    \/ ValidatePassword

SpecPassword ==
    Init /\ [][NextPassword]_vars

\* C32: validatePassword accepts exactly the passwords its messages
\* describe: a password is valid if and only if it has at least 8 and
\* less than 128 characters.
C32_LengthBounds ==
    outcome.op = "validatePassword"
    => ( outcome.result.valid
         <=> /\ Len(outcome.password) >= 8
             /\ Len(outcome.password) < 128 )

\* C33: the response limit holds under concurrency.  In every reachable
\* state, under any interleaving of the statements of concurrent
\* operations, a survey with a non-null max_responses has at most that
\* many stored responses.
C33_ResponseLimit ==
    \A row \in surveys :
        Truthy(row.max_responses)
        => getResponseCount(responses, row.id) <= row.max_responses[1]

\* ------------------------------------------------------------------------
\* The statements of concurrent operations on the deployed database, which
\* enforces the foreign key of the responses table.
\* ------------------------------------------------------------------------

SpecStepsEnforced ==
    Init /\ [][NextSteps]_vars

\* C34: referential integrity under concurrency.  In every reachable
\* state, under any interleaving of the statements of submitResponse with
\* those of deleteSurvey, deleteSurveyByAnalysisId and
\* cleanupExpiredSurveys, every stored response's survey_id is the id of a
\* stored survey.
C34_NoOrphans ==
    \A r \in responses : \E row \in surveys : row.id = r.survey_id

\* a submission passed its checks, the survey was deleted before its
\* INSERT ran, and the INSERT was refused
C34_Witness ==
    /\ outcome.op = "submitResponse"
    /\ outcome.result = Throw("D1_ERROR: FOREIGN KEY constraint failed")
    /\ surveys = {}
    /\ responses = {}

\* ------------------------------------------------------------------------
\* Submissions to surveys that are missing, expired or full: createSurvey
\* and submitResponse called one at a time while the clock advances.
\* ------------------------------------------------------------------------

NextReject ==
    \/ Return
    \/ Tick
    \/ CallCreateLimited
    \/ CallSubmitResponse

SpecReject ==
    Init /\ [][NextReject]_vars

\* the submitResponse call of this step threw this message and left both
\* tables as they were
Rejected(message) ==
    /\ outcome'.result = Throw(message)
    /\ surveys' = surveys
    /\ responses' = responses

\* C35: a rejected submission changes nothing.  submitResponse throws
\* 'Survey not found' when no survey has the id, 'Survey has expired' when
\* the time is past the survey's non-null expires_at, and 'Survey has
\* reached maximum responses' when the survey is not expired and the
\* number of its responses has reached its non-null max_responses; in each
\* case no row is inserted and both tables are unchanged.
C35_RejectedChangesNothing ==
    [][ ( /\ outcome = Idle
          /\ outcome'.op = "submitResponse" )
        => LET surveyId   == outcome'.args[2]
               rows       == {row \in surveys : row.id = surveyId}
               Expired(row) == /\ row.expires_at # Null
                               /\ now > row.expires_at[1]
               Full(row)    == /\ row.max_responses # Null
                               /\ getResponseCount(responses, surveyId)
                                     >= row.max_responses[1]
           IN  /\ rows = {} => Rejected("Survey not found")
               /\ \A row \in rows :
                     /\ Expired(row) => Rejected("Survey has expired")
                     /\ (~Expired(row) /\ Full(row))
                           => Rejected("Survey has reached maximum responses") ]_vars

\* a submission to a survey that holds as many responses as its limit
\* allows was refused
C35_Witness ==
    /\ outcome.op = "submitResponse"
    /\ outcome.result = Throw("Survey has reached maximum responses")
    /\ \E row \in surveys :
          /\ row.id = outcome.args[2]
          /\ row.max_responses # Null
          /\ getResponseCount(responses, row.id) = row.max_responses[1]

\* C36: cleanupExpiredSurveys(db, maxAge), run alone at time now, removes
\* exactly the surveys with created_at < now - maxAge and all of their
\* responses, leaves every other survey and every response of another
\* survey as it was, and returns deletedCount equal to the number of
\* surveys it removed.
C36_SweepExact ==
    [][ ( /\ outcome = Idle
          /\ outcome'.op = "cleanupExpiredSurveys" )
        => LET maxAge == outcome'.args[1]
               old    == {row \in surveys : row.created_at < now - maxAge}
               gone   == {r \in responses : \E row \in old : row.id = r.survey_id}
           IN  /\ surveys' = surveys \ old
               /\ responses' = responses \ gone
               /\ outcome'.result = Ok([deletedCount |-> Cardinality(old)]) ]_vars

\* a sweep removed one survey while a survey created at the time of the
\* sweep and its response stay
C36_Witness ==
    /\ outcome.op = "cleanupExpiredSurveys"
    /\ outcome.result = Ok([deletedCount |-> 1])
    /\ Cardinality(surveys) = 1
    /\ Cardinality(responses) = 1
    /\ \A r \in responses : \E row \in surveys : row.id = r.survey_id
    /\ \A row \in surveys : row.created_at = now

\* what getSurveyResponsesByAnalysisId returns for a stored response
Listed(r) ==
    [id |-> r.id, answers |-> ArrayFrom(r.answers), submittedAt |-> r.submitted_at]

\* C37: an authorized getSurveyResponsesByAnalysisId returns all and only
\* the stored responses whose parent is the survey with that analysis id,
\* each once and with its answers as stored, from the newest submitted_at
\* to the oldest.
C37_ListsOwnResponses ==
    ( /\ outcome.op = "getSurveyResponsesByAnalysisId"
      /\ outcome.result.ok )
    => LET list   == outcome.result.value
           parent == {row \in surveys : row.analysis_id = outcome.args[1]}
           mine   == {r \in responses : \E row \in parent : row.id = r.survey_id}
       IN  /\ Cardinality(parent) = 1
           /\ \A row \in parent : row.creator_key_hash = outcome.args[2]
           /\ Len(list) = Cardinality(mine)
           /\ \A r \in mine : \E i \in 1..Len(list) : list[i] = Listed(r)
           /\ \A i \in 1..Len(list) : \E r \in mine : list[i] = Listed(r)
           /\ \A i, j \in 1..Len(list) :
                 /\ i < j => list[i].submittedAt >= list[j].submittedAt
                 /\ i # j => list[i].id # list[j].id

\* two responses submitted at different times were listed, newest first
C37_Witness ==
    /\ outcome.op = "getSurveyResponsesByAnalysisId"
    /\ outcome.result.ok
    /\ Len(outcome.result.value) = 2
    /\ outcome.result.value[1].submittedAt > outcome.result.value[2].submittedAt

\* ------------------------------------------------------------------------
\* GET /api/analysis/:id/responses while submissions and deletions run.
\* handleGetResponsesByAnalysisId awaits getSurveyResponsesByAnalysisId and
\* then getSurveyStatsByAnalysisId: four statements, each awaited on its
\* own (the SELECT of the survey and the SELECT of its responses, the
\* SELECT of the survey again and the COUNT of its responses).
\* ------------------------------------------------------------------------

\* the reply of the handler's catch block for a thrown message
ErrorReply(message) ==
    IF IncludesUnauthorized(message)
    THEN errorResponse(message, 401)
    ELSE errorResponse(message, 500)

BeginHandleGetResponsesByAnalysisId ==
    \E c \in Callers, keyHash \in {Null} \cup {StoreKeyHash(v) : v \in StoreVersions} :
        /\ calls[c] = NoCall
        /\ Begin(c, "handleGetResponsesByAnalysisId", "responses.getSurveyByAnalysisId",
                 <<StepsAnalysisId, keyHash>>)

StepHandleGetResponsesByAnalysisId ==
    \E c \in Callers :
        LET analysisId == calls[c].args[1]
            keyHash    == calls[c].args[2]
            found      == getSurveyByAnalysisId(surveys, analysisId)
            \* the survey lookup and key check both functions start with
            Lookup(next) ==
                IF found = {}
                THEN Finish(c, ErrorReply("Survey not found"))
                ELSE IF (CHOOSE x \in found : TRUE).creatorKeyHash # keyHash
                THEN Finish(c, ErrorReply("Unauthorized - incorrect creator key"))
                ELSE /\ calls' = [calls EXCEPT ![c] = [@ EXCEPT !.pc = next,
                                                                !.survey = found]]
                     /\ outcome' = Idle
        IN  /\ calls[c].op = "handleGetResponsesByAnalysisId"
            /\ StepFrame
            /\ UNCHANGED <<surveys, responses>>
            /\ \/ /\ calls[c].pc = "responses.getSurveyByAnalysisId"
                  /\ IF keyHash = Null
                     THEN Finish(c, errorResponse("Missing authorization key hash", 401))
                     ELSE Lookup("responses.select")
               \/ /\ calls[c].pc = "responses.select"
                  /\ LET survey == CHOOSE x \in calls[c].survey : TRUE
                         rows   == MapResponses(OrderBySubmittedAt(
                                      {r \in responses : r.survey_id = survey.id}, TRUE))
                     IN  /\ calls' = [calls EXCEPT ![c] =
                                        [@ EXCEPT !.pc = "stats.getSurveyByAnalysisId",
                                                  !.rows = rows]]
                         /\ outcome' = Idle
               \/ /\ calls[c].pc = "stats.getSurveyByAnalysisId"
                  /\ Lookup("stats.getResponseCount")
               \/ /\ calls[c].pc = "stats.getResponseCount"
                  /\ LET survey        == CHOOSE x \in calls[c].survey : TRUE
                         responseCount == getResponseCount(responses, survey.id)
                         stats == [surveyId      |-> survey.id,
                                   analysisId    |-> survey.analysisId,
                                   responseCount |-> responseCount,
                                   createdAt     |-> survey.createdAt,
                                   expiresAt     |-> survey.expiresAt,
                                   maxResponses  |-> survey.maxResponses,
                                   isExpired     |-> IF Truthy(survey.expiresAt)
                                                     THEN now > survey.expiresAt[1]
                                                     ELSE FALSE,
                                   isAtLimit     |-> IF Truthy(survey.maxResponses)
                                                     THEN responseCount
                                                             >= survey.maxResponses[1]
                                                     ELSE FALSE]
                     IN  Finish(c, apiResponse([success |-> TRUE,
                                                data |-> [responses |-> calls[c].rows,
                                                          stats     |-> stats]],
                                               200))

NextReply ==
    \/ StepCreateSurvey
    \/ BeginSubmitResponse
    \/ StepSubmitResponse
    \/ BeginDeleteSurveyByAnalysisId
    \/ BeginDeleteSurvey
    \/ StepDelete
    \/ BeginHandleGetResponsesByAnalysisId
    \/ StepHandleGetResponsesByAnalysisId

SpecReply ==
    Init /\ [][NextReply]_vars

\* C38: the reply of GET /api/analysis/:id/responses is consistent under
\* concurrency.  For any interleaving with submissions and deletions, a
\* successful reply has stats.responseCount equal to the number of entries
\* of responses.
C38_ReplyConsistent ==
    ( /\ outcome.op = "handleGetResponsesByAnalysisId"
      /\ outcome.result.status = 200 )
    => outcome.result.body.data.stats.responseCount
          = Len(outcome.result.body.data.responses)

\* C39: deleting one survey affects only that survey.  A successful
\* deleteSurveyByAnalysisId or deleteSurvey, run alone, leaves every other
\* survey row and every response row of another survey as it was; a delete
\* that fails, because no survey has the id or because the key hash is not
\* the creator's, leaves both tables as they were.
C39_DeleteFrame ==
    [][ ( /\ outcome = Idle
          /\ outcome'.op \in {"deleteSurvey", "deleteSurveyByAnalysisId"} )
        => IF outcome'.result.ok
           THEN /\ Cardinality(DeleteTargets) = 1
                /\ \A id \in DeleteTargets :
                      /\ {row \in surveys' : row.id # id}
                            = {row \in surveys : row.id # id}
                      /\ {r \in responses' : r.survey_id # id}
                            = {r \in responses : r.survey_id # id}
           ELSE /\ outcome'.result.error \in
                      {"Survey not found",
                       "Unauthorized - only survey creator can delete"}
                /\ surveys' = surveys
                /\ responses' = responses ]_vars

\* a survey and its response were deleted by the survey id while another
\* survey and its response stay
C39_Witness ==
    /\ outcome.op = "deleteSurvey"
    /\ outcome.result.ok
    /\ outcome.result.value.deletedResponses = 1
    /\ Cardinality(surveys) = 1
    /\ Cardinality(responses) = 1
    /\ \A r \in responses : \E row \in surveys : row.id = r.survey_id

====
